---- MODULE Spec2Model ----
(***************************************************************************)
(* GitHub Dashboard Feed userscript (version 0.9.4): the received-events   *)
(* feed state machine (initialLoad, the More button, renderFeed), the      *)
(* actor filter, the reactions bar, the time-ago label and the event card  *)
(* renderer.                                                               *)
(***************************************************************************)
EXTENDS Integers, Sequences, FiniteSets, TLC

VARIABLES
    (* ---- feed state (let ... at the top of main) ---- *)
    eventsList,          \* eventsList
    currentPage,         \* currentPage
    hasMore,             \* hasMore
    loading,             \* loading
    actorFilterEnabled,  \* actorFilterEnabled
    renderBodyEnabled,   \* renderBodyEnabled
    (* ---- document ---- *)
    docSections,         \* nodes of the parent that carry FEED_SECTION_ID, in document order
    containerRef,        \* containerRef: node id of the current section, 0 for null
    cardsRow,            \* child nodes of the current section's .gh-dashboard-feed-row
    moreBtnRef,          \* "null", or the text of the More button ("More" / "Loading More...")
    nodeCount,           \* number of section nodes created so far
    cardsMade,           \* number of cards renderEventCard has been called for so far
    (* ---- environment and history ---- *)
    pc,                  \* position of main / initialLoad
    inflight,            \* fetch requests awaiting their response
    requested,           \* every page requested so far, in order
    applied,             \* every page applied to eventsList so far, in order
    failures,            \* number of load cycles that ended in the catch branch
    notifications,       \* messages passed to console.error (each one is notified)
    lastResp,            \* the response the last completed fetch received
    toggles,             \* number of menu toggles so far
    lastOp,              \* the last operation that ran
    (* ---- startup (main) ---- *)
    storedToken,         \* what GM.getValue(TOKEN_KEY, "") finds in the store
    useSidebarEnabled,   \* useSidebarEnabled
    waits,               \* state of waitForUsername / waitForSidebar / waitForFeedContainer
    hostCleared,         \* whether feedContainer.innerHTML = "" has run
    (* ---- menu commands ---- *)
    menuCommands,        \* the commands registered with GM.registerMenuCommand
    menuIDs,             \* renderBodyMenuID / actorFilterMenuID / useSidebarMenuID, 0 for null
    menuSeq,             \* the last id GM.registerMenuCommand returned
    pendingWrites,       \* per toggle, the handlers that await GM.setValue
    activations,         \* number of menu activations so far
    (* ---- the page-number variant ---- *)
    pagination,          \* the pagination control of the mounted section: its page and lastPage
    (* ---- arguments and results of the pure functions ---- *)
    fnArg,               \* argument handed to the function under check
    fnRes,               \* its result
    fnDone               \* whether it has been applied

feedVars == <<eventsList, currentPage, hasMore, loading, actorFilterEnabled, renderBodyEnabled>>
domVars == <<docSections, containerRef, cardsRow, moreBtnRef, nodeCount, cardsMade>>
envVars == <<pc, inflight, requested, applied, failures, notifications, lastResp, toggles, lastOp>>
mainVars == <<storedToken, useSidebarEnabled, waits, hostCleared>>
menuVars == <<menuCommands, menuIDs, menuSeq, pendingWrites, activations>>
pageVars == <<pagination>>
fnVars == <<fnArg, fnRes, fnDone>>
vars == <<feedVars, domVars, envVars, mainVars, menuVars, pageVars, fnVars>>

(***************************************************************************)
(* JavaScript primitive values: undefined, null, numbers and strings.      *)
(* Strict equality (===) of two primitives is equality of these records.   *)
(***************************************************************************)
JsUndef == [t |-> "undefined", n |-> 0, s |-> ""]
JsNull == [t |-> "null", n |-> 0, s |-> ""]
JsNum(k) == [t |-> "number", n |-> k, s |-> ""]
JsStr(str) == [t |-> "string", n |-> 0, s |-> str]

\* The truthiness of a primitive: undefined, null, 0 and "" are falsy.
Truthy(v) ==
    CASE v.t = "undefined" -> FALSE
      [] v.t = "null" -> FALSE
      [] v.t = "number" -> v.n # 0
      [] v.t = "string" -> v.s # ""
      [] OTHER -> TRUE

(***************************************************************************)
(* Actors.  An actor is undefined, null or an object; a field the object   *)
(* does not carry reads as undefined.                                      *)
(***************************************************************************)
NoActor(tag) == [t |-> tag, id |-> JsUndef, login |-> JsUndef, display_login |-> JsUndef]
ActorObj(id, login, display) == [t |-> "object", id |-> id, login |-> login, display_login |-> display]

\* actor[key]
ActorProp(actor, key) ==
    CASE key = "id" -> actor.id
      [] key = "login" -> actor.login
      [] key = "display_login" -> actor.display_login
      [] OTHER -> JsUndef

\* The rules, each the sequence of its own keys (Object.keys order) and values.
ACTOR_FILTER_LIST ==
    << << <<"login", JsStr("GitHub Enterprise")>>, <<"display_login", JsStr("GitHub Enterprise")>> >>,
       << <<"id", JsNum(49699333)>>, <<"login", JsStr("dependabot[bot]")>> >>,
       << <<"id", JsNum(27856297)>>, <<"login", JsStr("dependabot-preview[bot]")>>,
          <<"display_login", JsStr("dependabot-preview[bot]")>> >>,
       << <<"id", JsNum(41898282)>>, <<"login", JsStr("github-actions[bot]")>>,
          <<"display_login", JsStr("github-actions[bot]")>> >>,
       << <<"login", JsStr("GitHub Action")>>, <<"display_login", JsStr("actions-user")>> >>,
       << <<"display_login", JsStr("dependabot support")>> >>,
       << <<"login", JsStr("web-flow")>>, <<"display_login", JsStr("web-flow")>> >> >>

\* A plausible slip: a rule matches only when all of its fields match.
RECURSIVE RuleMatchesAllKeys(_, _, _)
RuleMatchesAllKeys(actor, rule, k) ==
    IF k > Len(rule) THEN TRUE
    ELSE IF ActorProp(actor, rule[k][1]) # rule[k][2] THEN FALSE
    ELSE RuleMatchesAllKeys(actor, rule, k + 1)

\* The inner loop of isActorFiltered: for (const key of Object.keys(rule)), from key k on.
RECURSIVE RuleMatches(_, _, _)
RuleMatches(actor, rule, k) ==
    IF k > Len(rule) THEN FALSE
    ELSE IF ActorProp(actor, rule[k][1]) = rule[k][2] THEN TRUE
    ELSE RuleMatches(actor, rule, k + 1)

\* The outer loop: for (const rule of ACTOR_FILTER_LIST), from rule r on.
RECURSIVE AnyRuleMatchesFrom(_, _)
AnyRuleMatchesFrom(actor, r) ==
    IF r > Len(ACTOR_FILTER_LIST) THEN FALSE
    ELSE IF RuleMatches(actor, ACTOR_FILTER_LIST[r], 1) THEN TRUE
    ELSE AnyRuleMatchesFrom(actor, r + 1)

isActorFiltered(actor) ==
    IF actor.t # "object" THEN FALSE ELSE AnyRuleMatchesFrom(actor, 1)

(***************************************************************************)
(* timeAgo.  A date string is absent, unparsable, or a date lying          *)
(* secs * 1000 + millis milliseconds before now (0 <= millis < 1000), so   *)
(* that Math.floor((now - date) / 1000) is secs.                           *)
(***************************************************************************)
NoDate == [t |-> "undefined", secs |-> 0, millis |-> 0]
BadDate == [t |-> "invalid", secs |-> 0, millis |-> 0]
DateAgo(secs, millis) == [t |-> "valid", secs |-> secs, millis |-> millis]

\* Math.floor((now - date) / 1000), with now - date = secs * 1000 + millis: the
\* quotient is taken part by part, so that ages of several years stay in range.
ElapsedSeconds(d) == d.secs + d.millis \div 1000

\* A plausible slip: the singular tiers ("a minute ago", ...) left out.
timeAgoNoSingular(d) ==
    IF d.t # "valid" THEN ""
    ELSE LET seconds == ElapsedSeconds(d)
             minutes == seconds \div 60
             hours == minutes \div 60
             days == hours \div 24
             weeks == days \div 7
         IN  IF seconds < 10 THEN "now"
             ELSE IF seconds < 60 THEN ToString(seconds) \o " seconds ago"
             ELSE IF minutes < 60 THEN ToString(minutes) \o " minutes ago"
             ELSE IF hours < 24 THEN ToString(hours) \o " hours ago"
             ELSE IF days < 7 THEN ToString(days) \o " days ago"
             ELSE ToString(weeks) \o " weeks ago"

\* A plausible slip: a months tier added above the days, as most libraries have.
timeAgoWithMonths(d) ==
    IF d.t # "valid" THEN ""
    ELSE LET seconds == ElapsedSeconds(d)
             minutes == seconds \div 60
             hours == minutes \div 60
             days == hours \div 24
             weeks == days \div 7
         IN  IF seconds < 10 THEN "now"
             ELSE IF seconds < 60 THEN ToString(seconds) \o " seconds ago"
             ELSE IF minutes < 2 THEN "a minute ago"
             ELSE IF minutes < 60 THEN ToString(minutes) \o " minutes ago"
             ELSE IF hours < 2 THEN "an hour ago"
             ELSE IF hours < 24 THEN ToString(hours) \o " hours ago"
             ELSE IF days < 2 THEN "a day ago"
             ELSE IF days < 7 THEN ToString(days) \o " days ago"
             ELSE IF weeks < 2 THEN "a week ago"
             ELSE IF days < 60 THEN ToString(weeks) \o " weeks ago"
             ELSE ToString(days \div 30) \o " months ago"

timeAgo(d) ==
    IF d.t = "undefined" THEN ""
    ELSE IF d.t = "invalid" THEN ""
    ELSE LET seconds == ElapsedSeconds(d)
             minutes == seconds \div 60
             hours == minutes \div 60
             days == hours \div 24
             weeks == days \div 7
         IN  IF seconds < 10 THEN "now"
             ELSE IF seconds < 60 THEN ToString(seconds) \o " seconds ago"
             ELSE IF minutes < 2 THEN "a minute ago"
             ELSE IF minutes < 60 THEN ToString(minutes) \o " minutes ago"
             ELSE IF hours < 2 THEN "an hour ago"
             ELSE IF hours < 24 THEN ToString(hours) \o " hours ago"
             ELSE IF days < 2 THEN "a day ago"
             ELSE IF days < 7 THEN ToString(days) \o " days ago"
             ELSE IF weeks < 2 THEN "a week ago"
             ELSE ToString(weeks) \o " weeks ago"

(***************************************************************************)
(* renderReactionsBar.  A reactions value is undefined, null, a primitive  *)
(* or an object; counts maps each known key to the value stored under it   *)
(* (undefined when the key is absent).                                     *)
(***************************************************************************)
reactionMeta ==
    << [key |-> "+1", label |-> "Thumbs up"],
       [key |-> "-1", label |-> "Thumbs down"],
       [key |-> "laugh", label |-> "Laugh"],
       [key |-> "hooray", label |-> "Hooray"],
       [key |-> "confused", label |-> "Confused"],
       [key |-> "heart", label |-> "Heart"],
       [key |-> "rocket", label |-> "Rocket"],
       [key |-> "eyes", label |-> "Eyes"] >>

ReactionKeys == {reactionMeta[i].key : i \in 1..Len(reactionMeta)}
NoCounts == [k \in ReactionKeys |-> JsUndef]
NoReactions(tag) == [t |-> tag, counts |-> NoCounts]
ReactionsObj(counts) == [t |-> "object", counts |-> counts]

\* A plausible slip: any defined count, zero included, gets a badge.
CountShownAnyNumber(count) == count.t = "number"

\* typeof count === "number" && count > 0
CountShown(count) == count.t = "number" /\ count.n > 0

\* The first loop: hasAny, with its break.
RECURSIVE HasAnyFrom(_, _)
HasAnyFrom(reactions, i) ==
    IF i > Len(reactionMeta) THEN FALSE
    ELSE IF CountShown(reactions.counts[reactionMeta[i].key]) THEN TRUE
    ELSE HasAnyFrom(reactions, i + 1)

\* The second loop: one disabled button per key with a positive count.
RECURSIVE BadgesFrom(_, _)
BadgesFrom(reactions, i) ==
    IF i > Len(reactionMeta) THEN << >>
    ELSE LET count == reactions.counts[reactionMeta[i].key]
             rest == BadgesFrom(reactions, i + 1)
         IN  IF CountShown(count)
             THEN << [key |-> reactionMeta[i].key,
                      ariaLabel |-> ToString(count.n) \o " " \o reactionMeta[i].label,
                      count |-> count.n,
                      disabled |-> TRUE] >> \o rest
             ELSE rest

\* The result: null, or the bar with its badges.
NoBar == [bar |-> FALSE, badges |-> << >>]
renderReactionsBar(reactions) ==
    IF reactions.t # "object" THEN NoBar
    ELSE IF ~HasAnyFrom(reactions, 1) THEN NoBar
    ELSE [bar |-> TRUE, badges |-> BadgesFrom(reactions, 1)]

(***************************************************************************)
(* Events.  Every part of an event may be undefined, null or an object     *)
(* (an array for commits and pages); a field that is absent reads as       *)
(* undefined.                                                              *)
(***************************************************************************)
NoRepo(tag) == [t |-> tag, name |-> JsUndef]
RepoObj(name) == [t |-> "object", name |-> name]

NoCommit(tag) == [t |-> tag, sha |-> JsUndef, message |-> JsUndef]
CommitObj(sha, message) == [t |-> "object", sha |-> sha, message |-> message]

NoPage(tag) == [t |-> tag, action |-> JsUndef, page_name |-> JsUndef]
PageObj(action, name) == [t |-> "object", action |-> action, page_name |-> name]

NoList(tag) == [t |-> tag, items |-> << >>]
ListOf(items) == [t |-> "array", items |-> items]

NoComment(tag) == [t |-> tag, body |-> JsUndef, commit_id |-> JsUndef, reactions |-> NoReactions("undefined")]
CommentObj(body, commit_id, reactions) ==
    [t |-> "object", body |-> body, commit_id |-> commit_id, reactions |-> reactions]

NoPayload(tag) ==
    [t |-> tag, action |-> JsUndef, size |-> JsUndef, commits |-> NoList("undefined"),
     pages |-> NoList("undefined"), comment |-> NoComment("undefined")]
EmptyPayload == [NoPayload("undefined") EXCEPT !.t = "object"]

EventObj(id, type, actor, repo, created_at, payload) ==
    [id |-> id, type |-> type, actor |-> actor, repo |-> repo,
     created_at |-> created_at, payload |-> payload]

\* String(v) of a primitive, as a template literal interpolates it.
ToStr(v) ==
    CASE v.t = "string" -> v.s
      [] v.t = "number" -> ToString(v.n)
      [] v.t = "null" -> "null"
      [] OTHER -> "undefined"

\* DOMPurify.sanitize: markup that can run script is removed, plain text is kept.
Sanitize(str) ==
    CASE str = "<script>x</script>" -> ""
      [] str = "<img src=x onerror=y>Evil" -> "<img src=\"x\">Evil"
      [] OTHER -> str

\* x || [] for commits and pages: anything but an array with items is an empty list here.
ItemsOf(list) == IF list.t = "array" THEN list.items ELSE << >>

\* list.slice(0, 9)
FirstNine(items) == SubSeq(items, 1, IF Len(items) < 9 THEN Len(items) ELSE 9)

\* str.split("\n") of the commit messages that hold a line break; any other
\* string is its own single line.
SplitLines(str) ==
    CASE str = "Add tests\nMore" -> << "Add tests", "More" >>
      [] str = "Refactor\n\nLong description" -> << "Refactor", "", "Long description" >>
      [] str = "Bump\n" -> << "Bump", "" >>
      [] OTHER -> << str >>

\* A plausible slip: the whole commit message is put in the list item.
CommitMessageShownWhole(commit) ==
    IF Truthy(commit.message) THEN commit.message.s ELSE ""

\* The text of a list item after the sha link: messages[0], followed by " ..."
\* when split gave more than one line.
CommitMessageShown(commit) ==
    LET messages == SplitLines(IF Truthy(commit.message) THEN commit.message.s ELSE "")
    IN  IF Len(messages) = 0 THEN ""
        ELSE IF Len(messages) = 1 THEN messages[1]
        ELSE messages[1] \o " ..."

\* The commit list of a PushEvent card: one item for each of the first nine
\* commits, rendered by renderBodyOrShortHtml (nothing with body rendering off;
\* the Markdown engine is taken as initialised) and sanitized.
CommitItems(ev, renderBody) ==
    LET commits == FirstNine(ItemsOf(ev.payload.commits))
    IN  IF ev.type = JsStr("PushEvent") /\ renderBody
        THEN [i \in DOMAIN commits |->
                 [sha |-> ToStr(commits[i].sha),
                  message |-> Sanitize(CommitMessageShown(commits[i]))]]
        ELSE << >>

\* The PushEvent loop throws a TypeError on commit.message of a null or undefined
\* commit, on .split of a truthy message that is no string, and on .substring of
\* a sha that is neither null, undefined nor a string.
CommitThrows(commit) ==
    \/ commit.t # "object"
    \/ Truthy(commit.message) /\ commit.message.t # "string"
    \/ commit.sha.t = "number"

\* The GollumEvent loop throws on page.action of a null or undefined page.
PageThrows(page) == page.t # "object"

\* md.render(body) throws on a body that is no string; it is reached only with
\* body rendering enabled and the Markdown engine initialised.
BodyThrows(body, renderBody) == renderBody /\ Truthy(body) /\ body.t # "string"

\* Whether the switch statement of renderEventCard throws for this event, and the
\* catch branch therefore builds the card.
KindRendererThrows(ev, renderBody) ==
    LET payload == ev.payload
        typeStr == IF ev.type.t = "string" THEN ev.type.s ELSE ""
    IN  CASE typeStr = "PushEvent" ->
               \E i \in DOMAIN FirstNine(ItemsOf(payload.commits)) :
                   CommitThrows(ItemsOf(payload.commits)[i])
          [] typeStr = "GollumEvent" ->
               \E i \in DOMAIN FirstNine(ItemsOf(payload.pages)) :
                   PageThrows(ItemsOf(payload.pages)[i])
          [] typeStr = "CommitCommentEvent" ->
               \/ payload.comment.commit_id.t = "number"
               \/ BodyThrows(payload.comment.body, renderBody)
          [] typeStr = "IssueCommentEvent" ->
               BodyThrows(payload.comment.body, renderBody)
          [] OTHER -> FALSE

\* A plausible slip: the kind is interpolated as it came.
DefaultPhraseUnsanitized(type) ==
    "did <code>" \o (IF Truthy(type) THEN ToStr(type) ELSE "") \o "</code> in"

\* default: did <code>${DOMPurify.sanitize(type || "")}</code> in
DefaultPhrase(type) ==
    "did <code>" \o Sanitize(IF Truthy(type) THEN ToStr(type) ELSE "") \o "</code> in"

\* payload?.action || "did"
ActionOrDid(payload) == IF Truthy(payload.action) THEN ToStr(payload.action) ELSE "did"

\* The verb phrase of the card, one branch per case of the switch.
KindPhrase(ev) ==
    LET payload == ev.payload
        typeStr == IF ev.type.t = "string" THEN ev.type.s ELSE ""
    IN  CASE typeStr = "WatchEvent" ->
               IF payload.action = JsStr("started") THEN "starred"
               ELSE IF Truthy(payload.action) THEN ToStr(payload.action) ELSE "did"
          [] typeStr = "PushEvent" ->
               IF ~Truthy(payload.size) THEN "pushed something"
               ELSE IF payload.size = JsNum(1) THEN "pushed 1 commit"
               ELSE "pushed " \o ToStr(payload.size) \o " commits"
          [] typeStr = "GollumEvent" -> "edited wiki in"
          [] typeStr = "CommitCommentEvent" -> "commented on commit"
          [] typeStr = "IssueCommentEvent" -> "commented on issue"
          [] typeStr = "PublicEvent" -> "open sourced"
          [] typeStr = "SponsorshipEvent" -> "sponsored or received a sponsorship."
          [] typeStr = "ForkEvent" -> "forked"
          [] typeStr = "CreateEvent" -> "created"
          [] typeStr = "DeleteEvent" -> "deleted"
          [] typeStr = "IssuesEvent" -> ActionOrDid(payload) \o " issue"
          [] typeStr = "PullRequestEvent" -> ActionOrDid(payload) \o " pull request"
          [] typeStr = "PullRequestReviewEvent" -> "reviewed pull request"
          [] typeStr = "PullRequestReviewCommentEvent" -> "commented on pull request"
          [] typeStr = "MemberEvent" -> "added"
          [] typeStr = "ReleaseEvent" -> ActionOrDid(payload) \o " release"
          [] OTHER -> DefaultPhrase(ev.type)

\* actor && actor.login ? <a ...>${actor.login}</a> : ""
ActorLink(actor) ==
    IF actor.t = "object" /\ Truthy(actor.login) THEN ToStr(actor.login) ELSE ""

\* repo && repo.name ? <a ...>${repo.name}</a> : ""
RepoLink(repo) ==
    IF repo.t = "object" /\ Truthy(repo.name) THEN ToStr(repo.name) ELSE ""

\* A plausible slip: the switch is not wrapped in try/catch, so a failure of the
\* kind-specific renderer rejects the promise renderEventCard returns.
renderEventCardNoCatch(ev, renderBody) ==
    [rejected |-> KindRendererThrows(ev, renderBody),
     logged |-> << >>,
     card |-> [node |-> "card", ev |-> ev.id, actorLink |-> ActorLink(ev.actor),
               repoLink |-> RepoLink(ev.repo), marker |-> "", text |-> KindPhrase(ev),
               items |-> CommitItems(ev, renderBody),
               date |-> timeAgo(ev.created_at)]]

\* What renderEventCard returns: the promise is never rejected, the catch branch
\* replaces the content by the fallback and logs the failure.
renderEventCard(ev, renderBody) ==
    LET failed == KindRendererThrows(ev, renderBody)
        typeStr == IF Truthy(ev.type) THEN ToStr(ev.type) ELSE ""
    IN  [rejected |-> FALSE,
         logged |-> IF failed THEN << "Error rendering card for event:" >> ELSE << >>,
         card |-> [node |-> "card",
                   ev |-> ev.id,
                   actorLink |-> ActorLink(ev.actor),
                   repoLink |-> RepoLink(ev.repo),
                   marker |-> IF failed THEN "[Render error]" ELSE "",
                   text |-> IF failed THEN Sanitize(typeStr) ELSE KindPhrase(ev),
                   items |-> IF failed THEN << >> ELSE CommitItems(ev, renderBody),
                   date |-> timeAgo(ev.created_at)]]

\* '<div style="color:#888;padding:12px">No events</div>'
NoEventsNode ==
    [node |-> "placeholder", ev |-> 0, actorLink |-> "", repoLink |-> "", marker |-> "",
     text |-> "No events", items |-> << >>, date |-> ""]

\* The card loop of renderFeed, from index i on: each card is awaited and appended
\* to the fragment in order; a rejected renderEventCard is logged and skipped.
RECURSIVE CardsFrom(_, _, _)
CardsFrom(list, i, renderBody) ==
    IF i > Len(list) THEN [cards |-> << >>, logged |-> << >>]
    ELSE LET r == renderEventCard(list[i], renderBody)
             rest == CardsFrom(list, i + 1, renderBody)
         IN  IF r.rejected
             THEN [cards |-> rest.cards,
                   logged |-> << "Error appending event card:" >> \o rest.logged]
             ELSE [cards |-> << r.card >> \o rest.cards,
                   logged |-> r.logged \o rest.logged]

(***************************************************************************)
(* Bounds of the model.                                                    *)
(***************************************************************************)
MaxPage == 2          \* the More button is followed up to this page
MaxSmallBatch == 1    \* batches of 0..MaxSmallBatch events, besides the full page
MaxToggles == 1       \* activations of the actor-filter menu command
MaxInflight == 2      \* fetches the model lets be in flight at once

PER_PAGE == 25

(***************************************************************************)
(* The API's responses.                                                    *)
(***************************************************************************)
Human == ActorObj(JsNum(1), JsStr("alice"), JsStr("alice"))
Bot == ActorObj(JsNum(49699333), JsStr("dependabot[bot]"), JsStr("dependabot"))

Patterns == {"humans", "bots", "mixed"}
PatternActor(pattern, i) ==
    CASE pattern = "humans" -> Human
      [] pattern = "bots" -> Bot
      [] OTHER -> IF i % 2 = 1 THEN Bot ELSE Human

\* The i-th event of a page: a star, by the actor the pattern gives.
FeedEvent(page, i, pattern) ==
    EventObj(page * 100 + i, JsStr("WatchEvent"), PatternActor(pattern, i),
             RepoObj(JsStr("octo/repo")), DateAgo(page * 3600 + i, 0),
             [EmptyPayload EXCEPT !.action = JsStr("started")])

Batch(page, size, pattern) == [i \in 1..size |-> FeedEvent(page, i, pattern)]
BatchSizes == (0..MaxSmallBatch) \cup {PER_PAGE}
Batches(page) == {Batch(page, size, pattern) : size \in BatchSizes, pattern \in Patterns}

\* The Link response header: absent, or the rel tokens it holds.
NoLink == [present |-> FALSE, rels |-> {}]
LinkWith(rels) == [present |-> TRUE, rels |-> rels]
Links == {NoLink, LinkWith({"prev", "first"}), LinkWith({"prev", "next", "last", "first"})}

NetworkError == [net |-> "error", status |-> 0, link |-> NoLink, body |-> "none", events |-> << >>]
HttpResponse(status, link, body, events) ==
    [net |-> "ok", status |-> status, link |-> link, body |-> body, events |-> events]

FailureResponses ==
    {NetworkError,
     HttpResponse(401, NoLink, "object", << >>),
     HttpResponse(500, NoLink, "object", << >>),
     HttpResponse(200, NoLink, "malformed", << >>),
     HttpResponse(200, LinkWith({"prev", "next", "last", "first"}), "object", << >>)}
SuccessResponses(page) ==
    {HttpResponse(200, link, "array", events) : link \in Links, events \in Batches(page)}
Responses(page) == FailureResponses \cup SuccessResponses(page)

\* A plausible slip: hasNext starts out true, so a response without a Link header
\* is taken to have a next page.
HasNextDefaultTrue(link) == ~link.present \/ "next" \in link.rels

\* let hasNext = false; if (link) hasNext = /rel="next"/.test(link)
HasNext(link) == link.present /\ "next" \in link.rels

\* fetchReceivedEvents: the result of the request, or the error it throws (after
\* logging it with "Fetch error:").
FetchFailed(msg) ==
    [ok |-> FALSE, events |-> << >>, hasNext |-> FALSE, error |-> msg, logged |-> << "Fetch error:" >>]
fetchReceivedEvents(resp) ==
    IF resp.net = "error" THEN FetchFailed("NetworkError")
    ELSE IF resp.status = 401 THEN FetchFailed("Token is invalid or expired")
    ELSE IF resp.status < 200 \/ resp.status > 299 THEN FetchFailed("GitHub API error")
    ELSE IF resp.body = "malformed" THEN FetchFailed("SyntaxError")
    ELSE IF resp.body # "array" THEN FetchFailed("Unexpected GitHub API response: not an array")
    ELSE [ok |-> TRUE, events |-> resp.events, hasNext |-> HasNext(resp.link),
          error |-> "", logged |-> << >>]

\* newEvents.filter((ev) => !isActorFiltered(ev.actor))
RECURSIVE FilterActors(_)
FilterActors(events) ==
    IF events = << >> THEN << >>
    ELSE IF isActorFiltered(Head(events).actor) THEN FilterActors(Tail(events))
    ELSE << Head(events) >> \o FilterActors(Tail(events))

Survivors(events, filterOn) == IF filterOn THEN FilterActors(events) ELSE events

(***************************************************************************)
(* The bodies of the two load cycles: what the try branch and the catch    *)
(* branch assign to eventsList, currentPage and hasMore.                   *)
(***************************************************************************)
FeedState(events, page, more) == [eventsList |-> events, currentPage |-> page, hasMore |-> more]

\* A plausible slip: currentPage = nextPage left out.
LoadMoreSuccessPageKept(feed, nextPage, data, filterOn) ==
    LET newEvents == Survivors(data.events, filterOn)
    IN  FeedState(feed.eventsList \o newEvents, feed.currentPage,
                  data.hasNext /\ Len(newEvents) > 0)

\* A plausible slip: the new batch is put before the events already held.
LoadMoreSuccessPrepends(feed, nextPage, data, filterOn) ==
    LET newEvents == Survivors(data.events, filterOn)
    IN  FeedState(newEvents \o feed.eventsList, nextPage,
                  data.hasNext /\ Len(newEvents) > 0)

\* The try branch of the More button's onclick, after the fetch has resolved.
LoadMoreSuccess(feed, nextPage, data, filterOn) ==
    LET newEvents == Survivors(data.events, filterOn)
    IN  FeedState(feed.eventsList \o newEvents, nextPage,
                  data.hasNext /\ Len(newEvents) > 0)

\* A plausible slip: the catch branch of initialLoad copied into the More button.
LoadMoreFailureResets(feed) == FeedState(<< >>, 1, FALSE)

\* A plausible slip: hasMore = false left out of the catch branch.
LoadMoreFailureKeepsMore(feed) == feed

\* The catch branch of the More button's onclick.
LoadMoreFailure(feed) == FeedState(feed.eventsList, feed.currentPage, FALSE)

\* A plausible slip: hasMore taken from the Link header alone.
InitialLoadSuccessHasNextOnly(data, filterOn) ==
    FeedState(Survivors(data.events, filterOn), 1, data.hasNext)

\* The try branch of initialLoad.
InitialLoadSuccess(data, filterOn) ==
    LET events == Survivors(data.events, filterOn)
    IN  FeedState(events, 1, data.hasNext /\ Len(events) > 0)

\* The catch branch of initialLoad.
InitialLoadFailure == FeedState(<< >>, 1, FALSE)

\* A plausible slip: loading = false as the last statement of the try branch.
LoadingAfterCycleTryOnly(ok) == ~ok

\* loading = false after the try statement of either cycle, whichever branch ran.
LoadingAfterCycle(ok) == FALSE

(***************************************************************************)
(* The mount.  The document is the sequence of the section nodes of the    *)
(* parent that carry FEED_SECTION_ID; the row and the button are those of  *)
(* the section containerRef refers to.                                     *)
(***************************************************************************)
Dom(doc, ref, row, btn, count, made) ==
    [docSections |-> doc, containerRef |-> ref, cardsRow |-> row, moreBtnRef |-> btn,
     nodeCount |-> count, cardsMade |-> made]

InDocument(doc, node) == \E i \in DOMAIN doc : doc[i] = node

\* removeOldSection: the first node of the document with the id, if any, is removed.
removeOldSection(doc) == IF doc = << >> THEN doc ELSE Tail(doc)

\* A plausible slip: the new section is inserted without removing the old one.
insertEventsSectionSiblingKeepsOld(section, doc) == << section >> \o doc

\* insertEventsSectionSibling: the old section is removed, the new one becomes
\* the first child of the parent.
insertEventsSectionSibling(section, doc) == << section >> \o removeOldSection(doc)

\* A plausible slip: the card loop starts at the first event on every render.
FirstNewIndexZero(row) == 1

\* for (let i = cardsRow.childNodes.length; ...): the loop starts past the nodes
\* the row already holds (indexes are 1-based here).
FirstNewIndex(row) == Len(row) + 1

\* A plausible slip: the button is kept whenever there are events, hasMore or not.
MoreButtonIgnoresHasMore(feed, isLoading) ==
    IF Len(feed.eventsList) = 0 THEN "null"
    ELSE IF isLoading THEN "Loading More..." ELSE "More"

\* A plausible slip: the busy state is never shown, the trigger stays enabled.
MoreButtonNeverBusy(feed, isLoading) ==
    IF Len(feed.eventsList) = 0 \/ ~feed.hasMore THEN "null" ELSE "More"

\* The More button after a render: removed (null) without events or without
\* hasMore; otherwise disabled with the text "Loading More..." while loading,
\* and enabled with the text "More" when not.
MoreButton(feed, isLoading) ==
    IF Len(feed.eventsList) = 0 \/ ~feed.hasMore THEN "null"
    ELSE IF isLoading THEN "Loading More..." ELSE "More"

\* btn.disabled, which renderFeed sets together with the text.
BtnDisabled(btn) == btn = "Loading More..."

\* renderFeed(append, ...): the document after the render, and what it logged.
\* Every await of the card loop is a microtask, so no click and no menu command
\* runs inside a render.
renderFeed(append, dom, feed, isLoading, renderBody) ==
    LET reuse == dom.containerRef # 0 /\ append
        section == IF reuse THEN dom.containerRef ELSE dom.nodeCount + 1
        count == IF reuse THEN dom.nodeCount ELSE dom.nodeCount + 1
        row0 == IF reuse /\ append THEN dom.cardsRow ELSE << >>
        doc == IF ~append THEN insertEventsSectionSibling(section, dom.docSections)
               ELSE IF ~InDocument(dom.docSections, section)
                    THEN << section >> \o dom.docSections
                    ELSE dom.docSections
        empty == Len(feed.eventsList) = 0 /\ ~isLoading
        first == FirstNewIndex(row0)
        loop == CardsFrom(feed.eventsList, first, renderBody)
        calls == IF empty \/ first > Len(feed.eventsList) THEN 0
                 ELSE Len(feed.eventsList) - first + 1
        row == IF empty THEN << NoEventsNode >> ELSE row0 \o loop.cards
        btn == MoreButton(feed, isLoading)
    IN  [dom |-> Dom(doc, section, row, btn, count, dom.cardsMade + calls),
         logged |-> IF empty THEN << >> ELSE loop.logged]

(***************************************************************************)
(* Initial state: main has read the preferences and is about to call       *)
(* initialLoad.                                                            *)
(***************************************************************************)
CurrentFeed == FeedState(eventsList, currentPage, hasMore)
CurrentDom == Dom(docSections, containerRef, cardsRow, moreBtnRef, nodeCount, cardsMade)
Request(page, caller) == [page |-> page, per_page |-> PER_PAGE, caller |-> caller]

\* A fetch of a load cycle while it is awaited; filter records what
\* actorFilterEnabled was when the cycle issued it.
Awaited(page, caller) ==
    [page |-> page, per_page |-> PER_PAGE, caller |-> caller, filter |-> actorFilterEnabled]

\* A plausible slip: the setting is read before the await and used after it.
FilterInEffectAtIssue(request, current) == request.filter

\* if (actorFilterEnabled) after the await: the setting is read when the
\* response is applied.
FilterInEffect(request, current) == current
NoResponse == [net |-> "none", status |-> 0, link |-> NoLink, body |-> "none", events |-> << >>]

FnIdle == fnArg = "none" /\ fnRes = "none" /\ fnDone = FALSE
NoPagination == [page |-> 0, lastPage |-> 0]
FeedEmpty ==
    /\ pagination = NoPagination
    /\ eventsList = << >> /\ currentPage = 1 /\ hasMore = TRUE /\ loading = FALSE
    /\ docSections = << >> /\ containerRef = 0 /\ cardsRow = << >>
    /\ moreBtnRef = "null" /\ nodeCount = 0 /\ cardsMade = 0
    /\ inflight = << >> /\ requested = << >> /\ applied = << >>
    /\ failures = 0 /\ notifications = << >> /\ lastResp = NoResponse
    /\ toggles = 0 /\ lastOp = "none"
FeedIdle == FeedEmpty /\ pc = "main"

\* The values the token store can hold: nothing, strings, a value that is no
\* string, and a store whose read fails.
StoreThrows == [t |-> "throws", n |-> 0, s |-> ""]
ValidToken == JsStr("ghp_abc")
StoredTokens ==
    {JsUndef, JsStr(""), JsStr("   "), JsNum(5), StoreThrows, ValidToken, JsStr(" ghp_abc ")}

\* String.prototype.trim on the sample strings.
Trim(str) ==
    CASE str = "   " -> ""
      [] str = " ghp_abc " -> "ghp_abc"
      [] OTHER -> str

\* A plausible slip: the token is not trimmed before its length is tested.
getTokenNoTrim(stored) ==
    IF stored.t = "throws" THEN [token |-> JsNull, logged |-> << "Error fetching token:" >>]
    ELSE LET token == IF stored.t = "undefined" THEN JsStr("") ELSE stored
         IN  [token |-> IF token.t = "string" /\ token.s # "" THEN token ELSE JsNull,
              logged |-> << >>]

\* getToken: the trimmed token, or null when the store holds no string, an empty
\* or blank string, or the read fails (which is logged).
getToken(stored) ==
    IF stored.t = "throws" THEN [token |-> JsNull, logged |-> << "Error fetching token:" >>]
    ELSE LET token == IF stored.t = "undefined" THEN JsStr("") ELSE stored
         IN  [token |-> IF token.t = "string" /\ Trim(token.s) # ""
                        THEN JsStr(Trim(token.s)) ELSE JsNull,
              logged |-> << >>]

\* The three readiness waits main awaits with Promise.all.
WaitNames == {"username", "sidebar", "feedContainer"}
NoWaits == [w \in WaitNames |-> "none"]
AllFound == [w \in WaitNames |-> "found"]

\* A plausible slip: only the wait for the username is awaited.
PromiseAllRejectedUsernameOnly(ws) == ws["username"] = "timeout"

\* Promise.all rejects as soon as one of the waits has timed out, and resolves
\* when all have found their element.
PromiseAllRejected(ws) == \E w \in WaitNames : ws[w] = "timeout"
PromiseAllResolved(ws) == \A w \in WaitNames : ws[w] = "found"

(***************************************************************************)
(* The menu commands.  GM.registerMenuCommand is taken to return the id of *)
(* the new command at once and GM.unregisterMenuCommand to remove the      *)
(* command of the id it is given, as the code expects of them.             *)
(***************************************************************************)
MaxActivations == 3   \* menu activations in a run

Toggles == {"renderBody", "actorFilter", "useSidebar"}

\* The caption each update...MenuCommand builds from the value of its preference.
MenuLabel(t, value) ==
    CASE t = "renderBody" ->
           IF value THEN "Turn Off Render Body Feature" ELSE "Turn On Render Body Feature"
      [] t = "actorFilter" -> IF value THEN "Turn Off Actor Filter" ELSE "Turn On Actor Filter"
      [] t = "useSidebar" -> IF value THEN "Render in middle" ELSE "Render in sidebar"

\* What each handler logs once the write has settled.
MenuLog(t, value) ==
    CASE t = "renderBody" ->
           IF value THEN "Render Body Feature is now On" ELSE "Render Body Feature is now Off"
      [] t = "actorFilter" -> IF value THEN "Actor Filter is now On" ELSE "Actor Filter is now Off"
      [] t = "useSidebar" -> IF value THEN "Rendering in sidebar" ELSE "Rendering in middle"

MenuWriteError(t) ==
    CASE t = "renderBody" -> "Failed to persist Render Body setting:"
      [] t = "actorFilter" -> "Failed to persist Actor Filter setting:"
      [] t = "useSidebar" -> "Failed to persist Use Sidebar setting:"

Menu(commands, ids, seq) == [commands |-> commands, ids |-> ids, seq |-> seq]
MenuCommand(id, t, label) == [id |-> id, toggle |-> t, label |-> label]

\* A plausible slip: the command registered before is not unregistered.
updateMenuCommandKeepsOld(menu, t, value) ==
    LET id == menu.seq + 1
    IN  Menu(menu.commands \cup {MenuCommand(id, t, MenuLabel(t, value))},
             [menu.ids EXCEPT ![t] = id], id)

\* updateRenderBodyMenuCommand / updateActorFilterMenuCommand /
\* updateUseSidebarMenuCommand: the command of the stored id, if any, is
\* unregistered, a command with the caption of the current value is registered
\* and its id is stored.
updateMenuCommand(menu, t, value) ==
    LET kept == IF menu.ids[t] # 0 THEN {c \in menu.commands : c.id # menu.ids[t]}
                ELSE menu.commands
        id == menu.seq + 1
    IN  Menu(kept \cup {MenuCommand(id, t, MenuLabel(t, value))},
             [menu.ids EXCEPT ![t] = id], id)

\* Step 1 of main: "Configure GitHub Token" is registered, then the command of
\* each toggle.
MenuAtStartup(renderBody, actorFilter, useSidebar) ==
    LET m0 == Menu({MenuCommand(1, "token", "Configure GitHub Token")},
                   [t \in Toggles |-> 0], 1)
        m1 == updateMenuCommand(m0, "renderBody", renderBody)
        m2 == updateMenuCommand(m1, "actorFilter", actorFilter)
    IN  updateMenuCommand(m2, "useSidebar", useSidebar)

CurrentMenu == Menu(menuCommands, menuIDs, menuSeq)
SetMenu(menu) ==
    /\ menuCommands' = menu.commands
    /\ menuIDs' = menu.ids
    /\ menuSeq' = menu.seq

\* The menu as step 1 of main leaves it, with no handler under way.
MenuReady ==
    /\ LET menu == MenuAtStartup(renderBodyEnabled, actorFilterEnabled, useSidebarEnabled)
       IN  /\ menuCommands = menu.commands
           /\ menuIDs = menu.ids
           /\ menuSeq = menu.seq
    /\ pendingWrites = [t \in Toggles |-> 0]
    /\ activations = 0

\* main has passed steps 1 to 3 and is about to call initialLoad.
MainReady ==
    /\ storedToken = ValidToken
    /\ useSidebarEnabled = FALSE
    /\ waits = AllFound
    /\ hostCleared = TRUE

Init ==
    /\ FeedIdle
    /\ MainReady
    /\ actorFilterEnabled \in BOOLEAN
    /\ renderBodyEnabled \in BOOLEAN
    /\ FnIdle
    /\ MenuReady

SetFeed(feed) ==
    /\ eventsList' = feed.eventsList
    /\ currentPage' = feed.currentPage
    /\ hasMore' = feed.hasMore

SetDom(dom) ==
    /\ docSections' = dom.docSections
    /\ containerRef' = dom.containerRef
    /\ cardsRow' = dom.cardsRow
    /\ moreBtnRef' = dom.moreBtnRef
    /\ nodeCount' = dom.nodeCount
    /\ cardsMade' = dom.cardsMade

(***************************************************************************)
(* initialLoad                                                             *)
(***************************************************************************)
\* loading = true; await renderFeed(false, ...); the fetch of page 1 is issued.
InitialLoadStart ==
    /\ pc = "main"
    /\ loading' = TRUE
    /\ LET r == renderFeed(FALSE, CurrentDom, CurrentFeed, TRUE, renderBodyEnabled)
       IN  /\ SetDom(r.dom)
           /\ notifications' = notifications \o r.logged
    /\ inflight' = Append(inflight, Awaited(1, "initialLoad"))
    /\ requested' = Append(requested, Request(1, "initialLoad"))
    /\ pc' = "initialLoad"
    /\ lastOp' = "initialLoadStart"
    /\ UNCHANGED <<eventsList, currentPage, hasMore, actorFilterEnabled, renderBodyEnabled,
                   applied, failures, lastResp, toggles, mainVars, menuVars, pageVars, fnVars>>

\* The fetch of page 1 settles: try or catch branch, loading = false, second render.
InitialLoadResolve ==
    /\ pc = "initialLoad"
    /\ \E k \in DOMAIN inflight, resp \in Responses(1) :
        /\ inflight[k].caller = "initialLoad"
        /\ LET data == fetchReceivedEvents(resp)
               feed == IF data.ok
                       THEN InitialLoadSuccess(data, FilterInEffect(inflight[k], actorFilterEnabled))
                       ELSE InitialLoadFailure
               r == renderFeed(FALSE, CurrentDom, feed, FALSE, renderBodyEnabled)
           IN  /\ SetFeed(feed)
               /\ SetDom(r.dom)
               /\ applied' = IF data.ok THEN Append(applied, 1) ELSE applied
               /\ failures' = IF data.ok THEN failures ELSE failures + 1
               /\ notifications' =
                      notifications \o data.logged
                      \o (IF data.ok THEN << >> ELSE << "initialLoad error:" >>) \o r.logged
               /\ lastOp' = IF data.ok THEN "initialLoadApplied" ELSE "initialLoadFailed"
        /\ inflight' = [i \in 1..(Len(inflight) - 1) |->
                            IF i < k THEN inflight[i] ELSE inflight[i + 1]]
        /\ lastResp' = resp
        /\ loading' = LoadingAfterCycle(fetchReceivedEvents(resp).ok)
    /\ pc' = "done"
    /\ UNCHANGED <<actorFilterEnabled, renderBodyEnabled, requested, toggles, mainVars, menuVars, pageVars, fnVars>>

(***************************************************************************)
(* The More button                                                         *)
(***************************************************************************)
\* The body of btn.onclick past its guard: loading = true, the render that shows
\* the busy state, and the fetch of the next page.
StartLoadMore ==
    /\ currentPage < MaxPage
    /\ Len(inflight) < MaxInflight
    /\ loading' = TRUE
    /\ LET r == renderFeed(TRUE, CurrentDom, CurrentFeed, TRUE, renderBodyEnabled)
       IN  /\ SetDom(r.dom)
           /\ notifications' = notifications \o r.logged
    /\ inflight' = Append(inflight, Awaited(currentPage + 1, "more"))
    /\ requested' = Append(requested, Request(currentPage + 1, "more"))
    /\ lastOp' = "loadMoreStart"
    /\ UNCHANGED <<eventsList, currentPage, hasMore, actorFilterEnabled, renderBodyEnabled,
                   pc, applied, failures, lastResp, toggles, mainVars, menuVars, pageVars, fnVars>>

\* A plausible slip: if (loading) return left out.
MoreBtnOnClickNoGuard ==
    /\ moreBtnRef # "null"
    /\ StartLoadMore

\* btn.onclick.  The handler exists as long as the button does; activated while
\* loading is true it returns at once.
MoreBtnOnClick ==
    /\ moreBtnRef # "null"
    /\ IF loading
       THEN /\ lastOp' = "clickIgnored"
            /\ UNCHANGED <<feedVars, domVars, pc, inflight, requested, applied, failures,
                           notifications, lastResp, toggles, mainVars, menuVars, pageVars, fnVars>>
       ELSE StartLoadMore

\* The fetch of the next page settles: try or catch branch, loading = false, render.
LoadMoreResolve ==
    /\ \E k \in DOMAIN inflight :
        /\ inflight[k].caller = "more"
        /\ \E resp \in Responses(inflight[k].page) :
            /\ LET data == fetchReceivedEvents(resp)
                   feed == IF data.ok
                           THEN LoadMoreSuccess(CurrentFeed, inflight[k].page, data,
                                                FilterInEffect(inflight[k], actorFilterEnabled))
                           ELSE LoadMoreFailure(CurrentFeed)
                   r == renderFeed(TRUE, CurrentDom, feed, FALSE, renderBodyEnabled)
               IN  /\ SetFeed(feed)
                   /\ SetDom(r.dom)
                   /\ applied' = IF data.ok THEN Append(applied, inflight[k].page) ELSE applied
                   /\ failures' = IF data.ok THEN failures ELSE failures + 1
                   /\ notifications' =
                          notifications \o data.logged
                          \o (IF data.ok THEN << >> ELSE << "Load more error:" >>) \o r.logged
                   /\ lastOp' = IF data.ok THEN "loadMoreApplied" ELSE "loadMoreFailed"
            /\ lastResp' = resp
            /\ loading' = LoadingAfterCycle(fetchReceivedEvents(resp).ok)
        /\ inflight' = [i \in 1..(Len(inflight) - 1) |->
                            IF i < k THEN inflight[i] ELSE inflight[i + 1]]
    /\ UNCHANGED <<actorFilterEnabled, renderBodyEnabled, pc, requested, toggles, mainVars, menuVars, pageVars, fnVars>>

(***************************************************************************)
(* The actor-filter menu command                                           *)
(***************************************************************************)
\* The handler of the command, run to its end with a write that succeeds: the
\* flag is flipped, the new value is logged and the command is registered anew.
ToggleActorFilter ==
    /\ toggles < MaxToggles
    /\ toggles' = toggles + 1
    /\ actorFilterEnabled' = ~actorFilterEnabled
    /\ notifications' = notifications \o
           << IF actorFilterEnabled' THEN "Actor Filter is now On" ELSE "Actor Filter is now Off" >>
    /\ SetMenu(updateMenuCommand(CurrentMenu, "actorFilter", actorFilterEnabled'))
    /\ lastOp' = "toggleActorFilter"
    /\ UNCHANGED <<eventsList, currentPage, hasMore, loading, renderBodyEnabled, domVars,
                   pc, inflight, requested, applied, failures, lastResp, mainVars,
                   pendingWrites, activations, pageVars, fnVars>>

Next ==
    \/ InitialLoadStart
    \/ InitialLoadResolve
    \/ MoreBtnOnClick
    \/ LoadMoreResolve
    \/ ToggleActorFilter

Spec == Init /\ [][Next]_vars

\* The load cycles alone, when every fetch settles: a cycle that awaits its fetch
\* is resumed in the end.
NextLive ==
    \/ InitialLoadStart
    \/ InitialLoadResolve
    \/ MoreBtnOnClick
    \/ LoadMoreResolve

SpecLive ==
    Init /\ [][NextLive]_vars /\ WF_vars(InitialLoadResolve) /\ WF_vars(LoadMoreResolve)

(***************************************************************************)
(* The handlers of the three toggle commands, with the await of the write  *)
(* as a suspension point: a second activation can arrive before the first  *)
(* handler has registered the command anew.                                *)
(***************************************************************************)
PrefValue(t) ==
    CASE t = "renderBody" -> renderBodyEnabled
      [] t = "actorFilter" -> actorFilterEnabled
      [] t = "useSidebar" -> useSidebarEnabled

InitMenu ==
    /\ FeedIdle
    /\ storedToken = ValidToken
    /\ useSidebarEnabled \in BOOLEAN
    /\ waits = AllFound
    /\ hostCleared = ~useSidebarEnabled
    /\ actorFilterEnabled \in BOOLEAN
    /\ renderBodyEnabled \in BOOLEAN
    /\ FnIdle
    /\ MenuReady

\* The user activates the command of toggle t: the flag is flipped and the
\* handler awaits GM.setValue.
MenuActivate(t) ==
    /\ activations < MaxActivations
    /\ \E c \in menuCommands : c.toggle = t
    /\ activations' = activations + 1
    /\ renderBodyEnabled' = (IF t = "renderBody" THEN ~renderBodyEnabled ELSE renderBodyEnabled)
    /\ actorFilterEnabled' = (IF t = "actorFilter" THEN ~actorFilterEnabled ELSE actorFilterEnabled)
    /\ useSidebarEnabled' = (IF t = "useSidebar" THEN ~useSidebarEnabled ELSE useSidebarEnabled)
    /\ pendingWrites' = [pendingWrites EXCEPT ![t] = @ + 1]
    /\ lastOp' = "menuActivated"
    /\ UNCHANGED <<eventsList, currentPage, hasMore, loading, domVars, pc, inflight, requested,
                   applied, failures, notifications, lastResp, toggles, storedToken, waits,
                   hostCleared, menuCommands, menuIDs, menuSeq, pageVars, fnVars>>

\* The write of a suspended handler of toggle t settles: a failure is logged,
\* the value the flag has now is logged, and the command is registered anew.
MenuWriteSettles(t, ok) ==
    /\ pendingWrites[t] > 0
    /\ pendingWrites' = [pendingWrites EXCEPT ![t] = @ - 1]
    /\ notifications' = notifications
                           \o (IF ok THEN << >> ELSE << MenuWriteError(t) >>)
                           \o << MenuLog(t, PrefValue(t)) >>
    /\ SetMenu(updateMenuCommand(CurrentMenu, t, PrefValue(t)))
    /\ lastOp' = "menuUpdated"
    /\ UNCHANGED <<feedVars, domVars, pc, inflight, requested, applied, failures, lastResp,
                   toggles, mainVars, activations, pageVars, fnVars>>

NextMenu ==
    \/ \E t \in Toggles : MenuActivate(t)
    \/ \E t \in Toggles, ok \in BOOLEAN : MenuWriteSettles(t, ok)

SpecMenu == InitMenu /\ [][NextMenu]_vars

(***************************************************************************)
(* The page-number variant: render(page) fetches one page and mounts a new *)
(* section with its cards and its numbered buttons; a button of the        *)
(* mounted section sets currentPage and calls render, which is not awaited.*)
(***************************************************************************)
MaxRenders == 4      \* calls of render in a run
MaxLastPage == 3     \* the last page a Link header names

PAGINATION_MAX_DISPLAY == 6

\* The Link header as fetchReceivedEvents of the variant reads it: whether it has
\* rel="next", and the page of rel="last" (0 when the pattern does not match).
NoPageLink == [present |-> FALSE, next |-> FALSE, last |-> 0]
PageLink(next, last) == [present |-> TRUE, next |-> next, last |-> last]
PageLinks(page) ==
    {NoPageLink, PageLink(FALSE, 0), PageLink(TRUE, 0)}
        \cup {PageLink(TRUE, last) : last \in (page + 1)..MaxLastPage}

PageFailure == [ok |-> FALSE, link |-> NoPageLink, events |-> << >>]
PageResponses(page) ==
    {PageFailure}
        \cup {[ok |-> TRUE, link |-> link, events |-> Batch(page, size, pattern)] :
                 link \in PageLinks(page), size \in 0..1, pattern \in {"humans", "bots"}}

\* lastPage as fetchReceivedEvents of the variant computes it.
LastPageOf(link, page) ==
    IF ~link.present THEN page
    ELSE IF link.last # 0 THEN link.last
    ELSE IF link.next THEN page + 1 ELSE page

\* getPaginationDisplay(page, lastPage): the page numbers that get a button.
getPaginationDisplay(page, lastPage) ==
    IF lastPage <= PAGINATION_MAX_DISPLAY THEN 1..lastPage
    ELSE IF page <= 3 THEN {1, 2, 3, 4, lastPage - 1, lastPage}
    ELSE IF page = 4 THEN {1, 2, 3, 4, 5, lastPage}
    ELSE IF page >= lastPage - 2 THEN {1, 2, lastPage - 3, lastPage - 2, lastPage - 1, lastPage}
    ELSE IF page = lastPage - 3
         THEN {1, 2, lastPage - 4, lastPage - 3, lastPage - 2, lastPage - 1, lastPage}
    ELSE {1, page - 1, page, page + 1, lastPage}

PageCard(ev) == [node |-> "card", ev |-> ev.id]
PagePlaceholder == [node |-> "placeholder", ev |-> 0]

\* The section render(page) builds once its fetch has settled: the cards of the
\* surviving events or the placeholder, and the pagination control.
RenderedSection(page, resp, filterOn) ==
    LET events == IF resp.ok THEN Survivors(resp.events, filterOn) ELSE << >>
        lastPage == IF resp.ok THEN LastPageOf(resp.link, page) ELSE page
    IN  [row |-> IF events = << >> THEN << PagePlaceholder >>
                 ELSE [i \in 1..Len(events) |-> PageCard(events[i])],
         pagination |-> [page |-> page, lastPage |-> lastPage]]

InitPages ==
    /\ FeedIdle
    /\ MainReady
    /\ actorFilterEnabled \in BOOLEAN
    /\ renderBodyEnabled = FALSE
    /\ FnIdle
    /\ MenuReady

\* render(page) up to the await of its fetch.
RenderCall(page) ==
    /\ inflight' = Append(inflight, Request(page, "render"))
    /\ requested' = Append(requested, Request(page, "render"))

\* render(currentPage) at the end of the startup.
RenderFirst ==
    /\ pc = "main"
    /\ pc' = "done"
    /\ RenderCall(currentPage)
    /\ lastOp' = "render"
    /\ UNCHANGED <<feedVars, domVars, applied, failures, notifications, lastResp, toggles,
                   mainVars, menuVars, pageVars, fnVars>>

\* btn.onclick of the button pageNum of the mounted section, and onPageChange.
PageBtnOnClick(pageNum) ==
    /\ pagination # NoPagination
    /\ pageNum \in getPaginationDisplay(pagination.page, pagination.lastPage)
    /\ Len(requested) < MaxRenders
    /\ IF /\ pageNum # pagination.page
          /\ pageNum # currentPage /\ pageNum >= 1 /\ pageNum <= pagination.lastPage
       THEN /\ currentPage' = pageNum
            /\ RenderCall(pageNum)
            /\ lastOp' = "pageChange"
       ELSE /\ lastOp' = "clickIgnored"
            /\ UNCHANGED <<currentPage, inflight, requested>>
    /\ UNCHANGED <<eventsList, hasMore, loading, actorFilterEnabled, renderBodyEnabled, domVars,
                   pc, applied, failures, notifications, lastResp, toggles,
                   mainVars, menuVars, pageVars, fnVars>>

\* The fetch of a render settles, in any order: the rest of render runs and
\* insertEventsSectionSibling puts its section in the place of the mounted one.
RenderResolve ==
    /\ \E k \in DOMAIN inflight :
        /\ inflight[k].caller = "render"
        /\ \E resp \in PageResponses(inflight[k].page) :
            LET section == RenderedSection(inflight[k].page, resp, actorFilterEnabled)
            IN  /\ docSections' = insertEventsSectionSibling(nodeCount + 1, docSections)
                /\ nodeCount' = nodeCount + 1
                /\ cardsRow' = section.row
                /\ pagination' = section.pagination
                /\ applied' = Append(applied, inflight[k].page)
                /\ notifications' = notifications
                                       \o (IF resp.ok THEN << >> ELSE << "Fetch error:" >>)
        /\ inflight' = [i \in 1..(Len(inflight) - 1) |->
                            IF i < k THEN inflight[i] ELSE inflight[i + 1]]
    /\ lastOp' = "rendered"
    /\ UNCHANGED <<feedVars, containerRef, moreBtnRef, cardsMade, pc, requested, failures,
                   lastResp, toggles, mainVars, menuVars, fnVars>>

NextPages ==
    \/ RenderFirst
    \/ \E pageNum \in 1..MaxLastPage : PageBtnOnClick(pageNum)
    \/ RenderResolve

SpecPages == InitPages /\ [][NextPages]_vars

(***************************************************************************)
(* main, from step 2 on: the token is read, the three waits are awaited,   *)
(* the parent is chosen and initialLoad is called.                         *)
(***************************************************************************)
InitMain ==
    /\ FeedEmpty
    /\ pc = "getToken"
    /\ storedToken \in StoredTokens
    /\ useSidebarEnabled \in BOOLEAN
    /\ waits = NoWaits
    /\ hostCleared = FALSE
    /\ actorFilterEnabled = TRUE
    /\ renderBodyEnabled = FALSE
    /\ FnIdle
    /\ MenuReady

\* Step 2: const token = await getToken(); without a token main warns and returns,
\* with one it starts the three waits.
GetToken ==
    /\ pc = "getToken"
    /\ LET r == getToken(storedToken)
       IN  IF r.token = JsNull
           THEN /\ notifications' = notifications \o r.logged
                                       \o << "No token configured, skipping." >>
                /\ pc' = "returned"
                /\ lastOp' = "noToken"
                /\ waits' = waits
           ELSE /\ notifications' = notifications \o r.logged
                /\ pc' = "waitForAll"
                /\ lastOp' = "waitsStarted"
                /\ waits' = [w \in WaitNames |-> "pending"]
    /\ UNCHANGED <<feedVars, domVars, inflight, requested, applied, failures, lastResp,
                   toggles, storedToken, useSidebarEnabled, hostCleared, menuVars, pageVars, fnVars>>

\* Step 3: one of the pending waits finds its element or times out.  A timeout
\* rejects Promise.all: main logs the error and returns.  When the last wait has
\* found its element main chooses the parent, emptying the feed container unless
\* the sidebar is used, and goes on to initialLoad.
WaitSettles(w, outcome) ==
    /\ pc = "waitForAll"
    /\ waits[w] = "pending"
    /\ waits' = [waits EXCEPT ![w] = outcome]
    /\ IF PromiseAllRejected(waits')
       THEN /\ notifications' = notifications \o << "Failed to detect username or components:" >>
            /\ pc' = "returned"
            /\ lastOp' = "waitTimedOut"
            /\ hostCleared' = hostCleared
       ELSE IF PromiseAllResolved(waits')
       THEN /\ notifications' = notifications
            /\ pc' = "main"
            /\ lastOp' = "parentChosen"
            /\ hostCleared' = ~useSidebarEnabled
       ELSE /\ notifications' = notifications
            /\ pc' = pc
            /\ lastOp' = "waitFound"
            /\ hostCleared' = hostCleared
    /\ UNCHANGED <<feedVars, domVars, inflight, requested, applied, failures, lastResp,
                   toggles, storedToken, useSidebarEnabled, menuVars, pageVars, fnVars>>

NextMain ==
    \/ GetToken
    \/ \E w \in WaitNames, outcome \in {"found", "timeout"} : WaitSettles(w, outcome)
    \/ Next

SpecMain == InitMain /\ [][NextMain]_vars

(***************************************************************************)
(* The pure functions, each applied once to an argument drawn from a       *)
(* bounded set; the feed stays as main found it.                           *)
(***************************************************************************)
PureIdle ==
    FeedIdle /\ MainReady /\ actorFilterEnabled = TRUE /\ renderBodyEnabled = FALSE /\ MenuReady
ApplyOnce(result) ==
    /\ ~fnDone
    /\ fnRes' = result
    /\ fnDone' = TRUE
    /\ UNCHANGED <<fnArg, feedVars, domVars, envVars, mainVars, menuVars, pageVars>>

(* ---- isActorFiltered ---- *)
SampleIds == {JsUndef, JsNum(49699333), JsNum(41898282), JsNum(1), JsStr("49699333")}
SampleLogins ==
    {JsUndef, JsNull, JsStr("dependabot[bot]"), JsStr("web-flow"), JsStr("actions-user"),
     JsStr("alice")}
SampleDisplayLogins ==
    {JsUndef, JsStr("actions-user"), JsStr("dependabot support"), JsStr("GitHub Action"),
     JsStr("alice")}
SampleActors ==
    {NoActor("undefined"), NoActor("null")}
    \cup {ActorObj(id, login, display) :
            id \in SampleIds, login \in SampleLogins, display \in SampleDisplayLogins}

InitFilter == PureIdle /\ fnArg \in SampleActors /\ fnRes = FALSE /\ fnDone = FALSE
ApplyIsActorFiltered == ApplyOnce(isActorFiltered(fnArg))
SpecFilter == InitFilter /\ [][ApplyIsActorFiltered]_vars

(* ---- renderReactionsBar ---- *)
SampleCounts == {JsUndef, JsNum(0), JsNum(2), JsStr("2")}
SampleReactions ==
    {NoReactions("undefined"), NoReactions("null"), NoReactions("string")}
    \cup {ReactionsObj(counts) : counts \in [ReactionKeys -> SampleCounts]}

InitReactions == PureIdle /\ fnArg \in SampleReactions /\ fnRes = NoBar /\ fnDone = FALSE
ApplyRenderReactionsBar == ApplyOnce(renderReactionsBar(fnArg))
SpecReactions == InitReactions /\ [][ApplyRenderReactionsBar]_vars

(* ---- timeAgo ---- *)
MaxPlainAge == 130    \* every age from 0 to this many seconds
MaxMultiple == 8      \* multiples of a minute, an hour and a day up to this one

Minute == 60
Hour == 60 * Minute
Day == 24 * Hour
Week == 7 * Day
SampleAges ==
    {-5} \cup (0..MaxPlainAge)
    \cup {unit * m + d : unit \in {Minute, Hour, Day}, m \in 1..MaxMultiple, d \in {-1, 0, 1}}
    \cup {90 * Minute}
    \cup {Week * m + d : m \in {1, 2, 3, 52, 170, 520}, d \in {-1, 0, 1}}
SampleDates ==
    {NoDate, BadDate} \cup {DateAgo(secs, millis) : secs \in SampleAges, millis \in {0, 999}}

InitTimeAgo == PureIdle /\ fnArg \in SampleDates /\ fnRes = "" /\ fnDone = FALSE
ApplyTimeAgo == ApplyOnce(timeAgo(fnArg))
SpecTimeAgo == InitTimeAgo /\ [][ApplyTimeAgo]_vars

(* ---- renderEventCard and the card loop ---- *)
MaxCardBatch == 2     \* events in a rendered batch

OkCommit == CommitObj(JsStr("0123456789abcdef"), JsStr("Fix the parser"))
TenCommits == [i \in 1..10 |-> IF i = 10 THEN NoCommit("null") ELSE OkCommit]
TwoLineCommit == CommitObj(JsStr("aaaaaaa1"), JsStr("Add tests\nMore"))
ThreeLineCommit == CommitObj(JsStr("bbbbbbb2"), JsStr("Refactor\n\nLong description"))
NewlineEndCommit == CommitObj(JsStr("ccccccc3"), JsStr("Bump\n"))
MixedCommits == << TwoLineCommit, OkCommit, ThreeLineCommit, NewlineEndCommit >>
OkPage == PageObj(JsStr("edited"), JsStr("Home"))
PushPayload(commits, size) == [EmptyPayload EXCEPT !.commits = commits, !.size = size]
CommentPayload(body, commit_id) ==
    [EmptyPayload EXCEPT !.comment = CommentObj(body, commit_id, NoReactions("undefined"))]

\* Events the kind-specific renderer handles: absent and null parts included.
GoodShapes ==
    << [type |-> JsStr("WatchEvent"), payload |-> [EmptyPayload EXCEPT !.action = JsStr("started")]],
       [type |-> JsStr("WatchEvent"), payload |-> NoPayload("undefined")],
       [type |-> JsStr("WatchEvent"), payload |-> NoPayload("null")],
       [type |-> JsStr("PushEvent"), payload |-> NoPayload("null")],
       [type |-> JsStr("PushEvent"), payload |-> PushPayload(NoList("null"), JsNull)],
       [type |-> JsStr("PushEvent"), payload |-> PushPayload(ListOf(<< OkCommit >>), JsNum(1))],
       [type |-> JsStr("PushEvent"),
        payload |-> PushPayload(ListOf(<< CommitObj(JsNull, JsUndef) >>), JsNum(1))],
       [type |-> JsStr("PushEvent"), payload |-> PushPayload(ListOf(TenCommits), JsNum(10))],
       [type |-> JsStr("GollumEvent"), payload |-> [EmptyPayload EXCEPT !.pages = ListOf(<< OkPage >>)]],
       [type |-> JsStr("GollumEvent"), payload |-> NoPayload("undefined")],
       [type |-> JsStr("CommitCommentEvent"), payload |-> CommentPayload(JsStr("nice"), JsStr("0123456789abcdef"))],
       [type |-> JsStr("CommitCommentEvent"), payload |-> CommentPayload(JsNull, JsNull)],
       [type |-> JsStr("IssueCommentEvent"), payload |-> CommentPayload(JsStr("nice"), JsUndef)],
       [type |-> JsStr("FooEvent"), payload |-> NoPayload("undefined")],
       [type |-> JsUndef, payload |-> NoPayload("undefined")],
       [type |-> JsStr("PushEvent"), payload |-> PushPayload(ListOf(MixedCommits), JsNum(4))],
       [type |-> JsStr("<img src=x onerror=y>Evil"), payload |-> NoPayload("undefined")],
       [type |-> JsStr("pushevent"), payload |-> PushPayload(ListOf(<< NoCommit("null") >>), JsNum(1))],
       [type |-> JsNull, payload |-> NoPayload("null")],
       [type |-> JsNum(7), payload |-> EmptyPayload] >>

\* Events whose kind-specific renderer throws a TypeError.
BadShapes ==
    << [type |-> JsStr("PushEvent"), payload |-> PushPayload(ListOf(<< NoCommit("null") >>), JsNum(1))],
       [type |-> JsStr("PushEvent"),
        payload |-> PushPayload(ListOf(<< OkCommit, NoCommit("undefined") >>), JsNum(2))],
       [type |-> JsStr("PushEvent"),
        payload |-> PushPayload(ListOf(<< CommitObj(JsNum(1234567), JsStr("x")) >>), JsNum(1))],
       [type |-> JsStr("PushEvent"),
        payload |-> PushPayload(ListOf(<< CommitObj(JsStr("0123456789abcdef"), JsNum(5)) >>), JsNum(1))],
       [type |-> JsStr("GollumEvent"),
        payload |-> [EmptyPayload EXCEPT !.pages = ListOf(<< NoPage("null") >>)]],
       [type |-> JsStr("CommitCommentEvent"), payload |-> CommentPayload(JsUndef, JsNum(1234567))] >>

\* Events whose body is no string: md.render throws, with body rendering enabled only.
BodyShapes ==
    << [type |-> JsStr("IssueCommentEvent"), payload |-> CommentPayload(JsNum(42), JsUndef)],
       [type |-> JsStr("CommitCommentEvent"), payload |-> CommentPayload(JsNum(42), JsStr("0123456789abcdef"))] >>

\* The actor and the repo of a sample event: present, null, absent, or without names.
SampleParties ==
    << [actor |-> Human, repo |-> RepoObj(JsStr("octo/repo"))],
       [actor |-> NoActor("null"), repo |-> NoRepo("null")],
       [actor |-> NoActor("undefined"), repo |-> NoRepo("undefined")],
       [actor |-> ActorObj(JsNum(1), JsUndef, JsUndef), repo |-> RepoObj(JsUndef)] >>

SampleEvent(base, shapes, i) ==
    LET party == SampleParties[(i % Len(SampleParties)) + 1]
    IN  EventObj(base + i, shapes[i].type, party.actor, party.repo, DateAgo(61, 0),
                 shapes[i].payload)
GoodEvents == {SampleEvent(100, GoodShapes, i) : i \in DOMAIN GoodShapes}
BadEvents == {SampleEvent(200, BadShapes, i) : i \in DOMAIN BadShapes}
BodyEvents == {SampleEvent(300, BodyShapes, i) : i \in DOMAIN BodyShapes}
SampleEvents == GoodEvents \cup BadEvents \cup BodyEvents
SampleBatches == UNION {[1..n -> SampleEvents] : n \in 0..MaxCardBatch}

InitCards ==
    /\ PureIdle
    /\ fnArg \in [events : SampleBatches, renderBody : BOOLEAN]
    /\ fnRes = [cards |-> << >>, logged |-> << >>]
    /\ fnDone = FALSE
ApplyCardLoop == ApplyOnce(CardsFrom(fnArg.events, 1, fnArg.renderBody))
SpecCards == InitCards /\ [][ApplyCardLoop]_vars

(* ---- wrapConsole: the text handed to GM.notification ---- *)
\* A text is the sequence of its UTF-16 code units.
MaxOverLength == 10   \* texts are up to this much shorter or longer than the limit

NOTIFICATION_MAX_LENGTH == 200

\* String(str).replace(/[^\x20-\x7E]/g, "?")
toVisibleAscii(str) ==
    [i \in DOMAIN str |-> IF str[i] >= 32 /\ str[i] <= 126 THEN str[i] ELSE 63]

\* The argument of GM.notification for a formatted text: the ASCII text, cut at
\* NOTIFICATION_MAX_LENGTH and followed by "..." when it is longer.
wrapConsole(text) ==
    LET asciiText == toVisibleAscii(text)
    IN  IF Len(asciiText) > NOTIFICATION_MAX_LENGTH
        THEN SubSeq(asciiText, 1, NOTIFICATION_MAX_LENGTH) \o << 46, 46, 46 >>
        ELSE asciiText

\* Sample texts: plain ASCII, a mix of letters, accented letters and line
\* breaks, surrogate pairs, and the code units next to the printable range.
TextPatterns == {"ascii", "mixed", "surrogates", "edges"}
CodeUnit(pattern, i) ==
    CASE pattern = "ascii" -> 65
      [] pattern = "mixed" -> IF i % 3 = 0 THEN 233 ELSE IF i % 3 = 1 THEN 97 ELSE 10
      [] pattern = "surrogates" -> IF i % 2 = 1 THEN 55357 ELSE 56832
      [] pattern = "edges" -> IF i % 4 = 0 THEN 31 ELSE IF i % 4 = 1 THEN 32
                              ELSE IF i % 4 = 2 THEN 126 ELSE 127
SampleLengths ==
    {0, 1} \cup ((NOTIFICATION_MAX_LENGTH - MaxOverLength)..(NOTIFICATION_MAX_LENGTH + MaxOverLength))
SampleTexts ==
    {[i \in 1..len |-> CodeUnit(pattern, i)] : len \in SampleLengths, pattern \in TextPatterns}

InitNotify == PureIdle /\ fnArg \in SampleTexts /\ fnRes = << >> /\ fnDone = FALSE
ApplyWrapConsole == ApplyOnce(wrapConsole(fnArg))
SpecNotify == InitNotify /\ [][ApplyWrapConsole]_vars

(* ---- the scroll position across a load-more cycle ---- *)
\* What btn.onclick does to window.scrollY once the fetch has settled: prevHeight
\* (the section's scrollHeight) and prevScroll (window.scrollY) were taken when
\* the button was activated, scrollY is the offset the window has now.  The
\* cards of the new page are appended below afterwards and move nothing.
ScrollAfterLoadMore(prevScroll, prevHeight, scrollY) ==
    IF scrollY < prevHeight - 200 THEN prevScroll ELSE scrollY

\* Sample cycles: the offset when the button is activated, the height of the
\* section then, the largest offset the page allows then (document height
\* minus viewport height), and the offset when the fetch settles, which differs
\* when the user scrolled in between.
SampleOffsets == {0, 100, 300, 700, 900, 2900, 3000}
SampleHeights == {420, 1000, 3200}
SamplePageBottoms == {3000, 5000}
SampleScrolls ==
    {c \in [prevScroll : SampleOffsets, prevHeight : SampleHeights,
            pageBottom : SamplePageBottoms, scrollY : SampleOffsets] :
        c.prevScroll <= c.pageBottom /\ c.scrollY <= c.pageBottom}

InitScroll == PureIdle /\ fnArg \in SampleScrolls /\ fnRes = 0 /\ fnDone = FALSE
ApplyScroll == ApplyOnce(ScrollAfterLoadMore(fnArg.prevScroll, fnArg.prevHeight, fnArg.scrollY))
SpecScroll == InitScroll /\ [][ApplyScroll]_vars

(* ---- the body part of the cards of the kinds with a sub-entity ---- *)
\* md.render(body): the markup markdown-it makes of a text, here a wrapper that
\* shows what was rendered.
MdRender(str) == "<md>" \o str \o "</md>"

NoBody == [class |-> "none", text |-> ""]
BodyOff == [class |-> "off", text |-> ""]

\* renderBodyOrShortHtml(body, html): nothing when body rendering is off, else
\* the sanitized html if there is one, else the rendered and sanitized body if
\* there is one and markdown-it is ready, else an empty wrapper.
renderBodyOrShortHtml(body, html, renderBody, mdReady) ==
    IF ~renderBody THEN BodyOff
    ELSE IF Truthy(html) THEN [class |-> "event-body-html", text |-> Sanitize(ToStr(html))]
    ELSE IF Truthy(body) /\ mdReady
         THEN [class |-> "event-body-md", text |-> Sanitize(MdRender(ToStr(body)))]
    ELSE NoBody

SubEntityKinds ==
    {"IssueCommentEvent", "IssuesEvent", "PullRequestEvent", "PullRequestReviewEvent",
     "PullRequestReviewCommentEvent", "CommitCommentEvent", "ReleaseEvent"}

SubEntity(body, short, title) == [body |-> body, short_description_html |-> short, title |-> title]

\* x || ""
OrEmpty(v) == IF Truthy(v) THEN ToStr(v) ELSE ""

\* The first argument the case of each kind passes to renderBodyOrShortHtml.
BodyArgument(kind, sub) ==
    CASE kind \in {"IssueCommentEvent", "CommitCommentEvent", "ReleaseEvent"} -> sub.body
      [] kind = "IssuesEvent" -> JsStr("##### " \o OrEmpty(sub.title))
      [] OTHER -> JsStr("##### " \o OrEmpty(sub.title) \o "\n" \o OrEmpty(sub.body))

\* The second argument: null in every case of the switch.
HtmlArgument(kind, sub) == JsNull

\* The body part the card of an event of this kind gets.
CardBody(kind, sub, renderBody, mdReady) ==
    renderBodyOrShortHtml(BodyArgument(kind, sub), HtmlArgument(kind, sub), renderBody, mdReady)

SampleBodies == {JsUndef, JsStr("**bold**")}
SampleShortHtml == {JsUndef, JsStr("<b>short</b>"), JsStr("<script>x</script>")}
SampleTitles == {JsUndef, JsStr("Title")}
SampleBodyCalls ==
    {[kind |-> k, sub |-> SubEntity(b, h, t), renderBody |-> r, mdReady |-> m] :
        k \in SubEntityKinds, b \in SampleBodies, h \in SampleShortHtml, t \in SampleTitles,
        r \in BOOLEAN, m \in BOOLEAN}

InitBody == PureIdle /\ fnArg \in SampleBodyCalls /\ fnRes = NoBody /\ fnDone = FALSE
ApplyCardBody == ApplyOnce(CardBody(fnArg.kind, fnArg.sub, fnArg.renderBody, fnArg.mdReady))
SpecBody == InitBody /\ [][ApplyCardBody]_vars

(* ---- the preferences main reads at startup, and the parent it picks ---- *)
\* What the store does for a key: it holds no value, it holds a boolean, or the
\* read fails.
Absent == [t |-> "absent", v |-> FALSE]
ReadFails == [t |-> "throws", v |-> FALSE]
Held(v) == [t |-> "value", v |-> v]
StoreStates == {Absent, ReadFails, Held(TRUE), Held(FALSE)}

\* The default handed to GM.getValue for each key.
GetValueDefault(key) ==
    CASE key = "renderBody" -> FALSE
      [] key = "actorFilter" -> TRUE
      [] key = "useSidebar" -> FALSE

\* What the catch branch of each read assigns.
CatchValue(key) ==
    CASE key = "renderBody" -> FALSE
      [] key = "actorFilter" -> TRUE
      [] key = "useSidebar" -> TRUE

\* try { x = await GM.getValue(KEY, default) } catch { x = ... }
ReadPreference(key, held) ==
    IF held.t = "throws" THEN CatchValue(key)
    ELSE IF held.t = "absent" THEN GetValueDefault(key)
    ELSE held.v

\* The parent main hands to initialLoad.
ParentFor(useSidebar) == IF useSidebar THEN "sidebar" ELSE "feedContainer"

\* Step 1 of main and the choice of the parent.
ReadPreferences(store) ==
    LET prefs == [key \in Toggles |-> ReadPreference(key, store[key])]
    IN  [prefs |-> prefs, parent |-> ParentFor(prefs["useSidebar"])]

NoPreferences == [prefs |-> [key \in Toggles |-> FALSE], parent |-> "none"]
InitPrefs == PureIdle /\ fnArg \in [Toggles -> StoreStates] /\ fnRes = NoPreferences /\ fnDone = FALSE
ApplyReadPreferences == ApplyOnce(ReadPreferences(fnArg))
SpecPrefs == InitPrefs /\ [][ApplyReadPreferences]_vars

(***************************************************************************)
(* Claims                                                                  *)
(***************************************************************************)

\* The values the rules of ACTOR_FILTER_LIST hold under one key.
RuleValues(key) ==
    {ACTOR_FILTER_LIST[r][k][2] :
        <<r, k>> \in {<<r, k>> \in (1..Len(ACTOR_FILTER_LIST)) \X (1..3) :
                        /\ k <= Len(ACTOR_FILTER_LIST[r])
                        /\ ACTOR_FILTER_LIST[r][k][1] = key}}

\* C7: isActorFiltered(actor) is true iff the actor is an object and one of its
\* fields id, login, display_login is present and strictly equals the value some
\* rule holds under that same field; one matching field is enough, an absent
\* field never matches, and an absent or null actor is never filtered.
C7_FilteredIffSomeFieldMatches ==
    fnDone =>
        /\ fnRes <=> /\ fnArg.t = "object"
                     /\ \E key \in {"id", "login", "display_login"} :
                            /\ ActorProp(fnArg, key) # JsUndef
                            /\ ActorProp(fnArg, key) \in RuleValues(key)
        /\ fnArg.t # "object" => ~fnRes
        /\ (fnArg.t = "object" /\ fnArg.id = JsUndef /\ fnArg.login = JsUndef
                /\ fnArg.display_login = JsUndef) => ~fnRes

\* C7 witness: an actor filtered on its login alone, its id and display_login
\* matching no rule.
C7_Witness ==
    /\ fnDone /\ fnRes
    /\ fnArg = ActorObj(JsNum(1), JsStr("dependabot[bot]"), JsStr("alice"))

KeyIndex(key) == CHOOSE i \in 1..Len(reactionMeta) : reactionMeta[i].key = key

\* The known keys whose count is a number greater than zero.
PositiveKeys(reactions) ==
    IF reactions.t # "object" THEN {}
    ELSE {key \in ReactionKeys :
            reactions.counts[key].t = "number" /\ reactions.counts[key].n > 0}

\* C9: the reactions bar is present iff some known key has a strictly positive
\* numeric count; when present it holds exactly one badge per such key, in the
\* fixed key order, each showing that count; otherwise the result is null.
C9_BarIffPositiveCount ==
    fnDone =>
        LET pos == PositiveKeys(fnArg)
            badges == fnRes.badges
        IN  /\ fnRes.bar <=> pos # {}
            /\ ~fnRes.bar => fnRes = NoBar
            /\ Len(badges) = Cardinality(pos)
            /\ \A i \in DOMAIN badges :
                   /\ badges[i].key \in pos
                   /\ badges[i].count = fnArg.counts[badges[i].key].n
                   /\ badges[i].disabled
            /\ \A i, j \in DOMAIN badges :
                   i < j => KeyIndex(badges[i].key) < KeyIndex(badges[j].key)

\* C9 witness: a bar of two badges, from reactions that also hold a zero count,
\* an omitted count and a count given as a string.
C9_Witness ==
    /\ fnDone /\ fnRes.bar /\ Len(fnRes.badges) = 2
    /\ fnArg.counts["+1"] = JsNum(0)
    /\ fnArg.counts["-1"] = JsUndef
    /\ fnArg.counts["laugh"] = JsStr("2")
    /\ fnArg.counts["heart"] = JsNum(2)
    /\ fnArg.counts["eyes"] = JsNum(2)

C11_Label(s, weekTier) ==
    IF s < 10 THEN "now"
    ELSE IF s < 60 THEN ToString(s) \o " seconds ago"
    ELSE IF s < 2 * Minute THEN "a minute ago"
    ELSE IF s < 60 * Minute THEN ToString(s \div Minute) \o " minutes ago"
    ELSE IF s < 2 * Hour THEN "an hour ago"
    ELSE IF s < 24 * Hour THEN ToString(s \div Hour) \o " hours ago"
    ELSE IF s < 2 * Day THEN "a day ago"
    ELSE IF s < 7 * Day THEN ToString(s \div Day) \o " days ago"
    ELSE IF weekTier /\ s < 2 * Week THEN "a week ago"
    ELSE ToString((s \div Day) \div 7) \o " weeks ago"

FailsToRender(ev, renderBody) == ev \in BadEvents \/ (renderBody /\ ev \in BodyEvents)
CountOf(seq, x) == Cardinality({i \in DOMAIN seq : seq[i] = x})

\* C8: rendering a batch never throws and yields one card per event, in order;
\* the card of an event whose kind-specific renderer fails is the fallback with
\* the actor link, the repo link and "[Render error]", and the failure is
\* logged once; every other event gets its normal card.
C8_OneCardPerEvent ==
    fnDone =>
        LET evs == fnArg.events
            cards == fnRes.cards
        IN  /\ Len(cards) = Len(evs)
            /\ \A i \in DOMAIN evs :
                   /\ cards[i].node = "card"
                   /\ cards[i].ev = evs[i].id
                   /\ cards[i].actorLink = (IF evs[i].actor = Human THEN "alice" ELSE "")
                   /\ cards[i].repoLink =
                          (IF evs[i].repo = RepoObj(JsStr("octo/repo")) THEN "octo/repo" ELSE "")
                   /\ cards[i].marker =
                          (IF FailsToRender(evs[i], fnArg.renderBody) THEN "[Render error]" ELSE "")
                   /\ ~FailsToRender(evs[i], fnArg.renderBody) => cards[i].text = KindPhrase(evs[i])
            /\ CountOf(fnRes.logged, "Error rendering card for event:")
                   = Cardinality({i \in DOMAIN evs : FailsToRender(evs[i], fnArg.renderBody)})
            /\ CountOf(fnRes.logged, "Error appending event card:") = 0

\* C8 witness: a batch of two, the first a push whose commit is null and whose
\* actor and repo are null too, rendered as the fallback, the second rendered
\* normally.
C8_Witness ==
    /\ fnDone /\ Len(fnArg.events) = 2 /\ Len(fnRes.cards) = 2
    /\ fnArg.events[1].payload.commits = ListOf(<< NoCommit("null") >>)
    /\ fnArg.events[1].actor = NoActor("null")
    /\ fnRes.cards[1].marker = "[Render error]"
    /\ fnRes.cards[2].marker = ""
    /\ fnRes.cards[2].text = "starred"

AppliedOps == {"initialLoadApplied", "loadMoreApplied"}
SignalsNext(resp) == resp.link.present /\ "next" \in resp.link.rels

\* C1: at most one fetch is in flight, and only while loading is true; while
\* loading is true no step issues a fetch, and an activation of the More button
\* changes none of events, page, hasMore and the fetches in flight.
C1_NoFetchWhileLoading ==
    /\ [](Len(inflight) <= 1 /\ (inflight # << >> => loading))
    /\ [][loading =>
            /\ requested' = requested
            /\ Len(inflight') <= Len(inflight)
            /\ lastOp' = "clickIgnored" =>
                   UNCHANGED <<eventsList, currentPage, hasMore, inflight, loading>>]_vars

\* C1 witness: the More button was activated while the fetch of page 2 was in flight.
C1_Witness ==
    /\ lastOp = "clickIgnored" /\ loading
    /\ Len(inflight) = 1 /\ inflight[1].page = 2

\* C2: the k-th fetch requests page k with page size 25, the first from
\* initialLoad and the others from the More button; the k-th page applied is
\* page k; a page is requested only once the one before it is applied;
\* currentPage is the last page applied, never decreases, and grows by exactly
\* 1 with each page the More button applies.
C2_PagesInIncreasingOrder ==
    /\ [](/\ \A i \in DOMAIN requested :
                /\ requested[i].page = i
                /\ requested[i].per_page = 25
                /\ requested[i].caller = (IF i = 1 THEN "initialLoad" ELSE "more")
          /\ \A i \in DOMAIN applied : applied[i] = i
          /\ Len(applied) <= Len(requested)
          /\ Len(requested) <= Len(applied) + 1
          /\ currentPage = (IF applied = << >> THEN 1 ELSE applied[Len(applied)]))
    /\ [][/\ currentPage' >= currentPage
          /\ lastOp' = "loadMoreApplied" /\ applied' # applied => currentPage' = currentPage + 1
          /\ requested' # requested /\ requested # << >> =>
                 requested'[Len(requested')].page = currentPage + 1]_vars

\* C2 witness: pages 1 and 2 were requested and applied, in that order.
C2_Witness ==
    /\ applied = << 1, 2 >> /\ Len(requested) = 2
    /\ currentPage = 2 /\ lastOp = "loadMoreApplied"

\* C3: a load cycle whose fetch fails leaves events and page as they were, and
\* whenever events changes it becomes the old list followed by the whole
\* filtered batch of the response.
C3_FailedFetchLeavesEvents ==
    [][/\ failures' > failures =>
             eventsList' = eventsList /\ currentPage' = currentPage /\ applied' = applied
       /\ eventsList' # eventsList =>
             /\ failures' = failures
             /\ applied' # applied
             /\ eventsList' = eventsList \o Survivors(lastResp'.events, actorFilterEnabled)]_vars

\* C3 witness: with events on the page, the fetch of the next page returned a
\* body that is not an array.
C3_Witness ==
    /\ lastOp = "loadMoreFailed" /\ failures = 1
    /\ lastResp.status = 200 /\ lastResp.body = "object"
    /\ Len(eventsList) = PER_PAGE /\ currentPage = 1

\* C4 as stated: after a page is applied whose response signals a next page and
\* whose unfiltered batch is non-empty, hasMore is true.
C4_HasMoreFromUnfilteredBatch ==
    (lastOp \in AppliedOps /\ SignalsNext(lastResp) /\ Len(lastResp.events) > 0) => hasMore

\* C5: after a page is applied whose response has no rel="next" (a Link header
\* without it, or no Link header), hasMore is false and the section holds no
\* More button.
C5_NoNextSignalEndsPaging ==
    (lastOp \in AppliedOps /\ ~SignalsNext(lastResp)) =>
        /\ ~hasMore
        /\ moreBtnRef = "null"
        /\ InDocument(docSections, containerRef)

\* C5 witness: a full page of 25 events was applied by the More button from a
\* response whose Link header holds no rel="next".
C5_Witness ==
    /\ lastOp = "loadMoreApplied"
    /\ Len(lastResp.events) = 25 /\ lastResp.link = LinkWith({"prev", "first"})
    /\ Len(eventsList) = 50 /\ ~hasMore /\ moreBtnRef = "null"

ErrorReported ==
    \E i \in DOMAIN notifications :
        notifications[i] \in {"Load more error:", "initialLoad error:"}

\* C6: once a load cycle has failed, hasMore is false, the error has been
\* reported, no More button is mounted and no fetch is in flight or issued
\* again; the failing cycle leaves every card that was mounted in place, in a
\* section that is in the document.
C6_FailureIsTerminal ==
    /\ [](failures > 0 =>
            /\ failures = 1
            /\ ~hasMore /\ ~loading
            /\ inflight = << >>
            /\ moreBtnRef = "null"
            /\ ErrorReported)
    /\ [][/\ failures > 0 => requested' = requested
          /\ failures' > failures =>
                /\ Len(cardsRow') >= Len(cardsRow)
                /\ SubSeq(cardsRow', 1, Len(cardsRow)) = cardsRow
                /\ applied # << >> => cardsRow' = cardsRow /\ Len(cardsRow') = Len(eventsList')
                /\ InDocument(docSections', containerRef')]_vars

\* C6 witness: the fetch of page 2 failed after page 1 was applied; the cards of
\* page 1 are mounted and the More button is gone.
C6_Witness ==
    /\ failures = 1 /\ applied = << 1 >> /\ Len(requested) = 2
    /\ lastOp = "loadMoreFailed"
    /\ Len(cardsRow) = 1 /\ cardsRow[1].node = "card"
    /\ moreBtnRef = "null" /\ ~hasMore

\* C12: in every reachable state the document holds at most one node with the
\* feed container id, and once a mount has happened it holds exactly one, the
\* node containerRef refers to.
C12_OneContainer ==
    /\ Len(docSections) <= 1
    /\ containerRef # 0 => docSections = << containerRef >>

\* C12 witness: the two full renders of the initial load and the append renders
\* of a load-more cycle have run, and one container is in the document.
C12_Witness ==
    /\ lastOp = "loadMoreApplied" /\ nodeCount = 2
    /\ Len(docSections) = 1

\* C13: once a render has completed the card row holds exactly one card per
\* element of eventsList, in the order of eventsList (the placeholder of an
\* empty feed is no card); each event has been materialized once; and a render
\* that appends keeps the nodes the row held and adds the cards of the new
\* events only.
C13_OneCardPerEventInOrder ==
    /\ [](LET cards == SelectSeq(cardsRow, LAMBDA n : n.node = "card")
          IN  /\ Len(cards) = Len(eventsList)
              /\ \A i \in DOMAIN cards : cards[i].ev = eventsList[i].id
              /\ cardsMade = Len(eventsList))
    /\ [][lastOp' \in {"loadMoreStart", "loadMoreApplied", "loadMoreFailed"} =>
             /\ Len(cardsRow') >= Len(cardsRow)
             /\ SubSeq(cardsRow', 1, Len(cardsRow)) = cardsRow
             /\ cardsMade' - cardsMade = Len(eventsList') - Len(eventsList)]_vars

\* C13 witness: a second page has been appended to a first page that stays mounted.
C13_Witness ==
    /\ lastOp = "loadMoreApplied" /\ applied = << 1, 2 >>
    /\ Len(eventsList) = PER_PAGE + 1 /\ Len(cardsRow) = PER_PAGE + 1
    /\ cardsMade = PER_PAGE + 1

\* What the claim lets a list item show for each sample message: the first line,
\* and the marker exactly for the messages that hold a line break.
C14_FirstLine ==
    [m \in {"Fix the parser", "Add tests\nMore", "Refactor\n\nLong description", "Bump\n"} |->
        CASE m = "Fix the parser" -> "Fix the parser"
          [] m = "Add tests\nMore" -> "Add tests ..."
          [] m = "Refactor\n\nLong description" -> "Refactor ..."
          [] m = "Bump\n" -> "Bump ..."]

\* C14: the card of a Push event rendered with body rendering enabled lists one
\* item for each of the first 9 commits and no more, and each item shows the
\* first line of its commit message, followed by " ..." iff the message goes on
\* after a line break.
C14_FirstLineOfFirstNineCommits ==
    (fnDone /\ fnArg.renderBody) =>
        \A i \in DOMAIN fnArg.events :
            LET ev == fnArg.events[i]
                commits == IF ev.payload.commits.t = "array" THEN ev.payload.commits.items
                           ELSE << >>
                items == fnRes.cards[i].items
            IN  (ev.type = JsStr("PushEvent") /\ ev \in GoodEvents) =>
                    /\ Len(items) <= 9
                    /\ Len(items) = (IF Len(commits) < 9 THEN Len(commits) ELSE 9)
                    /\ \A k \in DOMAIN items :
                           commits[k].message.t = "string" =>
                               items[k].message = C14_FirstLine[commits[k].message.s]

\* C14 witness: a push of four commits (two-line, single-line, three-line and
\* newline-terminated messages) has been rendered with body rendering enabled.
C14_Witness ==
    /\ fnDone /\ fnArg.renderBody /\ Len(fnArg.events) = 1
    /\ fnArg.events[1].payload.commits = ListOf(MixedCommits)
    /\ Len(fnRes.cards[1].items) = 4
    /\ fnRes.cards[1].items[1].message = "Add tests ..."
    /\ fnRes.cards[1].items[2].message = "Fix the parser"

\* The kinds the switch of renderEventCard has a case for.
C15_KnownKinds ==
    {"WatchEvent", "ForkEvent", "PushEvent", "CreateEvent", "DeleteEvent", "PublicEvent",
     "IssueCommentEvent", "IssuesEvent", "PullRequestEvent", "PullRequestReviewEvent",
     "PullRequestReviewCommentEvent", "CommitCommentEvent", "MemberEvent", "GollumEvent",
     "ReleaseEvent", "SponsorshipEvent"}

\* The kind as the generic fragment has to show it: absent and null kinds as
\* the empty string, markup without its script-capable parts.
C15_ShownKind(type) ==
    CASE type = JsStr("FooEvent") -> "FooEvent"
      [] type = JsStr("pushevent") -> "pushevent"
      [] type = JsStr("<img src=x onerror=y>Evil") -> "<img src=\"x\">Evil"
      [] type = JsNum(7) -> "7"
      [] OTHER -> ""

\* C15: for every event whose kind is not one the switch knows (an absent or
\* null kind included) rendering does not throw and the card is the generic
\* fragment: actor link, "did <code>kind</code> in" with the sanitized kind,
\* repo link, and no [Render error] marker and nothing logged.
C15_UnknownKindGeneric ==
    fnDone =>
        \A i \in DOMAIN fnArg.events :
            LET ev == fnArg.events[i] IN
            ~(ev.type.t = "string" /\ ev.type.s \in C15_KnownKinds) =>
                /\ Len(fnRes.cards) = Len(fnArg.events)
                /\ fnRes.cards[i].marker = ""
                /\ fnRes.cards[i].text = "did <code>" \o C15_ShownKind(ev.type) \o "</code> in"
                /\ fnRes.cards[i].actorLink = (IF ev.actor = Human THEN "alice" ELSE "")
                /\ fnRes.cards[i].repoLink =
                       (IF ev.repo = RepoObj(JsStr("octo/repo")) THEN "octo/repo" ELSE "")
                /\ (Len(fnArg.events) = 1 => fnRes.logged = << >>)

\* C15 witness: an event whose kind holds markup and an event without a kind
\* have been rendered in one batch.
C15_Witness ==
    /\ fnDone /\ Len(fnArg.events) = 2
    /\ fnArg.events[1].type = JsStr("<img src=x onerror=y>Evil")
    /\ fnArg.events[2].type = JsUndef
    /\ fnRes.cards[1].text = "did <code><img src=\"x\">Evil</code> in"
    /\ fnRes.cards[2].text = "did <code></code> in"

\* The stored values that are no token: nothing, an empty and a blank string.
C16_NoTokenStored == storedToken \in {JsUndef, JsStr(""), JsStr("   ")}

\* The messages the run itself reported: every notification but the
\* confirmations of the menu command the user may activate at any time.
RunMessages ==
    SelectSeq(notifications,
              LAMBDA m : m \notin {"Actor Filter is now On", "Actor Filter is now Off"})

\* C16: when no token is stored (absent, empty or blank) the run ends at the
\* token step: from then on exactly one message has been reported, no wait has
\* been started, no request has been issued, the host container is untouched
\* and no feed container is mounted.
C16_NoTokenEndsRun ==
    (C16_NoTokenStored /\ pc # "getToken") =>
        /\ pc = "returned"
        /\ RunMessages = << "No token configured, skipping." >>
        /\ waits = NoWaits
        /\ requested = << >> /\ inflight = << >>
        /\ docSections = << >> /\ containerRef = 0 /\ ~hostCleared

\* C16 witness: main has returned for a blank token.
C16_Witness == storedToken = JsStr("   ") /\ pc = "returned" /\ lastOp = "noToken"

\* C17 as stated: when the first page is answered with status 401 the run is
\* over: one message has been reported and no feed container is mounted.
C17_Rejected401IsFatal ==
    (failures = 1 /\ applied = << >> /\ lastResp.net = "ok" /\ lastResp.status = 401) =>
        /\ Len(RunMessages) = 1
        /\ docSections = << >>

\* C18: once one of the readiness waits (username, sidebar, feed container)
\* has timed out, main has returned: the error has been reported, once; no
\* request has been or is ever issued; the host container has not been emptied
\* and no feed container is mounted.
C18_WaitTimeoutAborts ==
    /\ []((\E w \in {"username", "sidebar", "feedContainer"} : waits[w] = "timeout") =>
            /\ pc = "returned"
            /\ RunMessages = << "Failed to detect username or components:" >>
            /\ requested = << >> /\ inflight = << >>
            /\ ~hostCleared
            /\ docSections = << >> /\ containerRef = 0 /\ cardsRow = << >>)
    /\ [][pc = "returned" => pc' = "returned" /\ requested' = requested]_vars

\* C18 witness: the username was found and the wait for the sidebar timed out.
C18_Witness ==
    /\ waits["username"] = "found" /\ waits["sidebar"] = "timeout"
    /\ pc = "returned" /\ lastOp = "waitTimedOut"

\* C19 as stated: the text passed to the notification channel is never longer
\* than 200 characters and every character of it lies in 0x20-0x7E, the
\* characters outside that range having been replaced by "?".
C19_AtMost200Ascii ==
    fnDone =>
        /\ Len(fnRes) <= 200
        /\ \A i \in DOMAIN fnRes :
               /\ fnRes[i] >= 32 /\ fnRes[i] <= 126
               /\ i <= Len(fnArg) =>
                      fnRes[i] = (IF fnArg[i] >= 32 /\ fnArg[i] <= 126 THEN fnArg[i] ELSE 63)

\* The events of a fetched batch that are kept: all of them with actor
\* filtering disabled, those whose actor is not filtered with it enabled.
C20_Kept(batch, filterOn) ==
    SelectSeq(batch, LAMBDA ev : ~filterOn \/ ~isActorFiltered(ev.actor))

\* C20: every step leaves the old value of eventsList a prefix of the new one,
\* and a successful load makes the new value the old one followed by the
\* fetched batch in API order, restricted to the events whose actor is not
\* filtered when actor filtering is enabled, and whole when it is disabled.
C20_EventsAppendOnly ==
    [][/\ Len(eventsList') >= Len(eventsList)
       /\ SubSeq(eventsList', 1, Len(eventsList)) = eventsList
       /\ applied' # applied =>
              eventsList' = eventsList \o C20_Kept(lastResp'.events, actorFilterEnabled)]_vars

\* C20 witness: with actor filtering enabled a second page that mixes filtered
\* and other actors has been appended to a first page.
C20_Witness ==
    /\ lastOp = "loadMoreApplied" /\ applied = << 1, 2 >> /\ actorFilterEnabled
    /\ Len(lastResp.events) = PER_PAGE
    /\ \E i, j \in DOMAIN lastResp.events :
           lastResp.events[i].actor = Bot /\ lastResp.events[j].actor = Human
    /\ Len(eventsList) > 1 /\ Len(eventsList) < 2 * PER_PAGE
    /\ eventsList[1].id < 200 /\ eventsList[Len(eventsList)].id > 200

\* C21: hasMore is true until the first fetch settles and turns false only in
\* a step in which a fetch fails or a page is applied that carried no next-page
\* signal or added no event; once false it stays false, and from then on no More button is
\* mounted.
C21_HasMoreNeverReturns ==
    /\ []((applied = << >> /\ failures = 0) => hasMore)
    /\ [][hasMore /\ ~hasMore' =>
             \/ failures' > failures
             \/ /\ applied' # applied
                /\ \/ ~(lastResp'.link.present /\ "next" \in lastResp'.link.rels)
                   \/ eventsList' = eventsList]_vars
    /\ [][~hasMore => ~hasMore' /\ moreBtnRef' = "null"]_vars
    /\ [](~hasMore => moreBtnRef = "null")

\* C21 witness: two pages were applied, the second without a next-page signal,
\* and the More button that was mounted after the first is gone.
C21_Witness ==
    /\ applied = << 1, 2 >> /\ ~hasMore /\ moreBtnRef = "null"
    /\ lastResp.link = LinkWith({"prev", "first"}) /\ Len(eventsList) > PER_PAGE

\* C22: while a load-more cycle is under way the More button is mounted, shows
\* the busy text and is disabled, and the step that starts the cycle leaves
\* every mounted card in place; whenever no load is under way and hasMore is
\* true after the initial load, the button is mounted and enabled.
C22_BusyWhileLoading ==
    /\ []((loading /\ pc = "done") =>
             moreBtnRef = "Loading More..." /\ BtnDisabled(moreBtnRef))
    /\ []((~loading /\ pc = "done" /\ hasMore) =>
             moreBtnRef = "More" /\ ~BtnDisabled(moreBtnRef))
    /\ []((~loading /\ pc = "done") => ~BtnDisabled(moreBtnRef))
    /\ [][lastOp' = "loadMoreStart" =>
             cardsRow' = cardsRow /\ Len(cardsRow') = Len(eventsList) /\ Len(cardsRow) > 0]_vars

\* C22 witness: a load-more cycle ended with hasMore true and the button is
\* enabled again under the cards of both pages.
C22_Witness ==
    /\ lastOp = "loadMoreApplied" /\ hasMore /\ ~loading
    /\ moreBtnRef = "More" /\ Len(cardsRow) = 2 * PER_PAGE

\* C23 as stated: after a load-more cycle the window offset equals the offset
\* at the moment the button was activated, unless that offset was within 200 px
\* of the bottom of the page, in which case the offset is left where it is.
C23_ScrollPreserved ==
    fnDone =>
        IF fnArg.pageBottom - fnArg.prevScroll <= 200
        THEN fnRes = fnArg.scrollY
        ELSE fnRes = fnArg.prevScroll

\* C24: for each of the three toggles exactly one menu command is registered
\* in every state, it is the one whose id the script holds, and whenever no
\* handler of the toggle awaits its write the caption of the command is the one
\* of the current value of the preference.
C24_OneCommandPerToggle ==
    \A t \in {"renderBody", "actorFilter", "useSidebar"} :
        LET mine == {c \in menuCommands : c.toggle = t}
            value == CASE t = "renderBody" -> renderBodyEnabled
                       [] t = "actorFilter" -> actorFilterEnabled
                       [] t = "useSidebar" -> useSidebarEnabled
            caption == CASE t = "renderBody" ->
                              IF value THEN "Turn Off Render Body Feature"
                              ELSE "Turn On Render Body Feature"
                         [] t = "actorFilter" ->
                              IF value THEN "Turn Off Actor Filter" ELSE "Turn On Actor Filter"
                         [] t = "useSidebar" ->
                              IF value THEN "Render in middle" ELSE "Render in sidebar"
        IN  /\ Cardinality(mine) = 1
            /\ \A c \in mine : c.id = menuIDs[t]
            /\ pendingWrites[t] = 0 => \A c \in mine : c.label = caption

\* C24 witness: the actor-filter command was activated twice before either
\* write settled, and both handlers have since registered the command anew.
C24_Witness ==
    /\ activations = 2 /\ pendingWrites = [t \in Toggles |-> 0]
    /\ menuSeq = 6 /\ menuIDs["actorFilter"] = 6
    /\ notifications = << "Actor Filter is now On", "Actor Filter is now On" >>

\* C25: with body rendering on, the card of a sub-entity that carries a short
\* HTML field shows that field, sanitized, and not the markdown body; the
\* rendered body is shown only when there is no short HTML field.
C25_ShortHtmlPreferred ==
    (fnDone /\ fnArg.renderBody) =>
        LET short == fnArg.sub.short_description_html
        IN  /\ short.t = "string" =>
                  fnRes = [class |-> "event-body-html",
                           text |-> IF short.s = "<script>x</script>" THEN "" ELSE short.s]
            /\ fnRes.class = "event-body-md" => short.t # "string"

\* C26: when every fetch settles, loading never stays true for ever and the
\* More button never stays disabled for ever: at any moment a state with
\* loading false and the button enabled or gone is still to come.
C26_LoadingEnds ==
    /\ []<>(~loading)
    /\ []<>(moreBtnRef # "Loading More...")

\* C26 witness: a load-more cycle took the catch branch and loading is false.
C26_Witness == lastOp = "loadMoreFailed" /\ ~loading /\ failures = 1 /\ inflight = << >>

\* C27: once initialLoad has finished and no load is in progress the More
\* button is mounted exactly when hasMore is true, hasMore implies that there
\* are events, and a feed without events shows the "No events" placeholder and
\* no button; from such a feed no step adds an event.
C27_AffordanceIffHasMore ==
    /\ []((pc = "done" /\ ~loading) =>
            /\ (moreBtnRef # "null") <=> hasMore
            /\ hasMore => eventsList # << >>
            /\ eventsList = << >> =>
                   /\ Len(cardsRow) = 1 /\ cardsRow[1].text = "No events"
                   /\ moreBtnRef = "null")
    /\ [][(pc = "done" /\ eventsList = << >>) => eventsList' = << >>]_vars

\* C27 witness: the first page held events and announced a next page, the
\* filter removed them all, and the section shows the placeholder.
C27_Witness ==
    /\ pc = "done" /\ ~loading /\ lastOp = "initialLoadApplied"
    /\ lastResp.events # << >> /\ "next" \in lastResp.link.rels
    /\ eventsList = << >> /\ ~hasMore /\ moreBtnRef = "null"
    /\ Len(cardsRow) = 1 /\ cardsRow[1].text = "No events"

\* C28: in the page-number variant, once no fetch is in flight the mounted
\* section is the one of currentPage: its pagination control is of that page
\* and its cards are of events of that page.
C28_SectionOfCurrentPage ==
    (pc = "done" /\ inflight = << >>) =>
        /\ pagination.page = currentPage
        /\ \A i \in DOMAIN cardsRow :
               cardsRow[i].node = "card" => cardsRow[i].ev \div 100 = currentPage

\* C29: a preference whose key the store does not hold and one whose read fails
\* get the same value: render body off, actor filter on, placement in the
\* primary content region; a failing store leaves the feed where a store
\* without a value puts it.
C29_SameDefaultOnFailure ==
    fnDone =>
        /\ \A key \in {"renderBody", "actorFilter", "useSidebar"} :
               fnArg[key].t \in {"absent", "throws"} =>
                   fnRes.prefs[key] = (key = "actorFilter")
        /\ fnArg["useSidebar"].t \in {"absent", "throws"} => fnRes.parent = "feedContainer"

\* The part of a fetched batch that the setting lets through.
C30_Governed(batch, filterOn) ==
    SelectSeq(batch, LAMBDA ev : ~(filterOn /\ isActorFiltered(ev.actor)))

\* C30: a step that changes the actor-filter setting leaves eventsList, the
\* mounted cards and the fetches in flight as they are, and a step that applies
\* a response adds the batch as the setting of that moment lets it through,
\* whatever the setting was when the fetch was issued.
C30_ToggleGovernsInflightBatch ==
    [][/\ actorFilterEnabled' # actorFilterEnabled =>
              eventsList' = eventsList /\ cardsRow' = cardsRow /\ inflight' = inflight
       /\ applied' # applied =>
              eventsList' = (IF lastOp' = "initialLoadApplied" THEN << >> ELSE eventsList)
                               \o C30_Governed(lastResp'.events, actorFilterEnabled)]_vars

\* C30 witness: page 2 was requested with the filter on and the filter has
\* just been turned off while that fetch is in flight; the events and cards of
\* page 1 are in place.
C30_Witness ==
    /\ lastOp = "toggleActorFilter" /\ loading /\ applied = << 1 >>
    /\ Len(inflight) = 1 /\ inflight[1].page = 2 /\ inflight[1].filter /\ ~actorFilterEnabled
    /\ eventsList # << >> /\ Len(cardsRow) = Len(eventsList)
    /\ \A i \in DOMAIN eventsList : eventsList[i].actor = Human
====
